---- MODULE Spec2Model ----
(***************************************************************************)
(* A model of the jiotv_go streaming gateway: the EPG artifact writers     *)
(* (pkg/epg), the custom-channel cache and the upstream resolution client  *)
(* (pkg/television), and the zee5 token-guarded handlers                   *)
(* (pkg/plugins/zee5).                                                     *)
(*                                                                         *)
(* Each subsystem has its own variables, its own Init and Next, and its    *)
(* own specification; the variables of the other subsystems stay at their  *)
(* idle values.                                                            *)
(***************************************************************************)
EXTENDS Integers, Sequences, FiniteSets, Bags, TLC

VARIABLES
    \* ---- pkg/epg: the artifact on disk and its writers ----
    file,        \* content of the final path <prefix>epg.xml.gz
    tmp,         \* content of the sibling path <final>.tmp
    runs,        \* number of writer runs started so far (names the new artifact)
    genPc,       \* position of the GenXMLGz call
    genErr,      \* error GenXMLGz is going to return ("" = nil)
    genResult,   \* value returned by the last GenXMLGz call
    genPre,      \* content of the final path when the GenXMLGz call started
    dlPc,        \* position of the DownloadExternalEPG call
    dlHops,      \* loop variable i of DownloadExternalEPG
    dlResult,    \* value returned by the last DownloadExternalEPG call
    dlPre,       \* content of the final path when the download call started
    seen,        \* what a reader of the final path observed last
    \* ---- pkg/television: the custom-channel cache ----
    cfgPath,     \* config.Cfg.CustomChannelsFile, by kind of path
    heap,        \* the map objects allocated so far, by reference
    cacheRef,    \* customChannelsCacheMap: a reference, NilRef before the first load
    rwReaders,   \* customChannelsMu: the readers holding the read lock
    rwWriter,    \* customChannelsMu: TRUE while the write lock is held
    reloads,     \* number of reloads started so far (names the next map)
    relPc,       \* position of loadAndCacheCustomChannels
    relChannels, \* its local variable channels
    relErr,      \* its local variable err (TRUE = non-nil)
    relNext,     \* its local variable next
    relIdx,      \* position of its range loop over channels
    rdPc,        \* position of each reader
    rdOp,        \* the lookup each reader runs, with its argument
    rdRef,       \* the map each reader ranges over
    rdAcc,       \* the slice each reader has built so far, then its result
    \* ---- pkg/television: Television.Live ----
    livePc,      \* position of the Live call
    liveKind,    \* the namespace of its channelID: "jio", or "sl" known / unknown
    liveReqs,    \* requests sent to the backend by the call, retries included
    liveDepth,   \* depth of the recursion tv.Live -> tv.Live
    liveBody,    \* the decoded body of the 200 response
    liveEnd,     \* how the call ended
    liveOut,     \* the *LiveURLOutput it returned
    \* ---- pkg/television: Television.GetCatchupURL ----
    catPc,       \* position of the GetCatchupURL call
    catAttempts, \* loop variable i: attempts started so far
    catGotResp,  \* TRUE once tv.Client.Do has filled resp
    catBody,     \* the decoded body of the 200 response
    catEnd,      \* how the call ended
    catOut,      \* the *LiveURLOutput it returned
    \* ---- pkg/plugins/zee5: the token-guarded handlers ----
    tokPc,       \* position of the request being served
    tokHandler,  \* the handler serving it
    tokAuth,     \* its auth query parameter
    tokURL,      \* the URL DecryptURL returned
    tokFetches,  \* calls of fetchContent made for it
    tokStatus,   \* the response sent
    \* ---- pkg/plugins/zee5: getVariantURL ----
    vrPc,        \* position of the getVariantURL call
    vrContent,   \* its argument content, line by line
    vrQuality,   \* its argument quality
    vrVariants,  \* its local variable variants when the scan is over
    vrOut,       \* the (string, error) it returned
    \* ---- pkg/plugins/zee5: handlePlaylist ----
    plPc,        \* position of the handlePlaylist call
    plTarget,    \* its argument targetURLStr
    plMaster,    \* its argument isMaster
    plContent,   \* the body fetchContent returns, line by line
    plOut,       \* processedLines
    plStatus,    \* the response status sent
    \* ---- pkg/television: ReplaceTS, ReplaceAAC, ReplaceKey ----
    rpPc,        \* position of the call
    rpFn,        \* the function called
    rpDisable,   \* config.Cfg.DisableTSHandler
    rpArgs,      \* its arguments
    rpOut,       \* the []byte it returned
    \* ---- pkg/television: LoadCustomChannels called on its own ----
    ldPc,        \* position of the call
    ldPath,      \* filePath
    ldDisk,      \* what is at the path
    ldChannels,  \* the channels returned
    ldErr,       \* whether the error returned is non-nil
    \* ---- pkg/television: FilterChannelsByDefaults ----
    flPc,        \* position of the call
    flChannels,  \* channels
    flCategories, \* categories
    flLanguages, \* languages
    flOut,       \* the channels returned
    \* ---- the scheduler ----
    schTasks,    \* the task map: id -> pending timer
    schTimers,   \* the timers that are armed
    schMu,       \* who holds the mutex of the task map
    schStopped,  \* Stop() has run
    schRuns,     \* how often each work function has run
    schFired,    \* how often a timer of each id has fired
    adPc,        \* position of each goroutine that calls Add
    adQueue,     \* the Add calls it has yet to make
    adReturned,  \* the ids for which an Add has returned
    \* ---- pkg/epg: the worker pool of genXML ----
    pwPc,        \* position of genXML in its fetch stage
    pwChannels,  \* channels
    pwSpawned,   \* workers started so far
    pwQueue,     \* channelQueue
    pwClosed,    \* channelQueue is closed
    pwNext,      \* index of the next channel to queue
    pwWg,        \* counter of the wait group
    pwWorkers,   \* the bag of the workers: position, channel, offset, last response
    pwProgrammes, \* programmes appended so far, whatever their order
    pwBar,       \* the progress counter
    pwHanded,    \* how often each channel was received by a worker
    \* ---- internal/config: JioTVConfig.Load ----
    cfPc,        \* position of Load
    cfPath,      \* the config file Load is called with
    cfCwd,       \* the working directory
    cfDisk,      \* the files that exist
    cfValue,     \* custom_channels_file as configured
    cfFile,      \* c.CustomChannelsFile
    cfErr,       \* Load returned an error
    \* ---- pkg/epg: the time Init arms the next generation for ----
    tmPc,        \* position of Init after genepg
    tmZone,      \* minutes the local clock is ahead of UTC
    tmClock,     \* local time of day, in minutes
    tmHour,      \* random_hour_bigint
    tmMinute,    \* random_min_bigint
    tmDelay,     \* the delay handed to scheduler.Add
    \* ---- EPGHandler and the writers of the EPG artifact ----
    hCfg,        \* config.Cfg.EPGURL set, config.Cfg.EPG, epg.Init started
    hFile,       \* epg.xml.gz
    hTmp,        \* epg.xml.gz.tmp
    hPc,         \* position of each writer and request
    hErr,        \* the error its last writer call returned to each
    hExtMu,      \* holder of externalEPGMu
    hLocMu,      \* holder of localEPGMu
    hRuns,       \* runs of the scheduled writers
    hOut,        \* the response to each request
    \* ---- pkg/television: FilterChannels ----
    sgPc,        \* position of FilterChannels
    sgChannels,  \* its argument channels
    sgLanguage,  \* its argument language
    sgCategory,  \* its argument category
    sgOut        \* what it returns

epgVars == <<file, tmp, runs, genPc, genErr, genResult, genPre,
             dlPc, dlHops, dlResult, dlPre, seen>>

cacheVars == <<cfgPath, heap, cacheRef, rwReaders, rwWriter, reloads,
               relPc, relChannels, relErr, relNext, relIdx,
               rdPc, rdOp, rdRef, rdAcc>>

liveVars == <<livePc, liveKind, liveReqs, liveDepth, liveBody, liveEnd, liveOut>>

catVars == <<catPc, catAttempts, catGotResp, catBody, catEnd, catOut>>

tokVars == <<tokPc, tokHandler, tokAuth, tokURL, tokFetches, tokStatus>>

variantVars == <<vrPc, vrContent, vrQuality, vrVariants, vrOut>>

playlistVars == <<plPc, plTarget, plMaster, plContent, plOut, plStatus>>

replaceVars == <<rpPc, rpFn, rpDisable, rpArgs, rpOut>>

loadVars == <<ldPc, ldPath, ldDisk, ldChannels, ldErr>>

filterVars == <<flPc, flChannels, flCategories, flLanguages, flOut>>

schedulerVars == <<schTasks, schTimers, schMu, schStopped, schRuns, schFired,
                   adPc, adQueue, adReturned>>

poolVars == <<pwPc, pwChannels, pwSpawned, pwQueue, pwClosed, pwNext, pwWg, pwWorkers, pwProgrammes, pwBar, pwHanded>>

configVars == <<cfPc, cfPath, cfCwd, cfDisk, cfValue, cfFile, cfErr>>

armVars == <<tmPc, tmZone, tmClock, tmHour, tmMinute, tmDelay>>

serveVars == <<hCfg, hFile, hTmp, hPc, hErr, hExtMu, hLocMu, hRuns, hOut>>

singleVars == <<sgPc, sgChannels, sgLanguage, sgCategory, sgOut>>

\* The variables of the subsystems modelled last.
lastVars == <<poolVars, configVars, armVars, serveVars, singleVars>>

laterVars == <<variantVars, playlistVars, replaceVars, loadVars, filterVars,
               schedulerVars>>

notEPG == <<cacheVars, liveVars, catVars, tokVars, laterVars, lastVars>>

notCache == <<epgVars, liveVars, catVars, tokVars, laterVars, lastVars>>

notLive == <<epgVars, cacheVars, catVars, tokVars, laterVars, lastVars>>

notCatchup == <<epgVars, cacheVars, liveVars, tokVars, laterVars, lastVars>>

notToken == <<epgVars, cacheVars, liveVars, catVars, laterVars, lastVars>>

\* The variables of the subsystems modelled up to the token handlers.
earlierVars == <<epgVars, cacheVars, liveVars, catVars, tokVars>>

notVariant ==
    <<earlierVars, playlistVars, replaceVars, loadVars, filterVars, schedulerVars,
      lastVars>>

notPlaylist ==
    <<earlierVars, variantVars, replaceVars, loadVars, filterVars, schedulerVars,
      lastVars>>

notReplace ==
    <<earlierVars, variantVars, playlistVars, loadVars, filterVars, schedulerVars,
      lastVars>>

notLoad ==
    <<earlierVars, variantVars, playlistVars, replaceVars, filterVars, schedulerVars,
      lastVars>>

notFilter ==
    <<earlierVars, variantVars, playlistVars, replaceVars, loadVars, schedulerVars,
      lastVars>>

notScheduler ==
    <<earlierVars, variantVars, playlistVars, replaceVars, loadVars, filterVars,
      lastVars>>

notPool == <<earlierVars, laterVars, configVars, armVars, serveVars, singleVars>>

notConfig == <<earlierVars, laterVars, poolVars, armVars, serveVars, singleVars>>

notArm == <<earlierVars, laterVars, poolVars, configVars, serveVars, singleVars>>

notServe == <<earlierVars, laterVars, poolVars, configVars, armVars, singleVars>>

notSingle == <<earlierVars, laterVars, poolVars, configVars, armVars, serveVars>>

vars == <<earlierVars, laterVars, lastVars>>

(***************************************************************************)
(* Bounds                                                                  *)
(***************************************************************************)
MaxRuns == 3

MaxReloads == 3

\* Cap on the requests one Live call may send in the model.
MaxLiveReqs == 4

\* Number of distinct upstream URLs, and of nonces, the codec is tried on.
NumURLs == 3

\* Largest BANDWIDTH value, and most stream-info entries, of a master playlist.
MaxBandwidth == 3

MaxEntries == 3

\* Most lines of a media playlist.
MaxLines == 3

\* Most channels in a custom-channel file.
MaxFileChannels == 2

\* Most channels in a catalog to filter, the five-channel catalog aside.
MaxFilterChannels == 2

\* Most entries of a default category or language list.
MaxDefaults == 2

\* Most firings of the timers of one task.
MaxFirings == 2

\* Most channels in the list genXML fetches.
MaxChannels == 3

\* The size of the worker pool: 20 in the code, smaller here so that a list
\* longer than the pool is reached.
numWorkers == 2

\* Most channel files on the disk when Load is called.
MaxFiles == 2

\* The number of evenly spaced times of day at which Init is taken to run.
ClockTicks == 24

\* Most requests for /epg.xml.gz, and most runs of each scheduled writer.
MaxRequests == 2

MaxWrites == 1

(***************************************************************************)
(* pkg/epg                                                                 *)
(***************************************************************************)
\* A path holds no file, an empty file, a partially written file or a
\* complete document; ver names the run that produced the bytes (0 = a
\* document left by an earlier process).
Absent == [st |-> "absent", ver |-> 0]

FileStates == {"absent", "empty", "partial", "complete"}

Intact(f) == f.st \in {"absent", "complete"}

\* The loop bound of DownloadExternalEPG.
MaxRedirects == 5

EPGInit ==
    /\ file \in {Absent, [st |-> "complete", ver |-> 0]}
    /\ tmp = Absent
    /\ runs = 0
    /\ genPc = "idle"
    /\ genErr = ""
    /\ genResult = "none"
    /\ genPre = Absent
    /\ dlPc = "idle"
    /\ dlHops = 0
    /\ dlResult = "none"
    /\ dlPre = Absent
    /\ seen = Absent

\* ---- GenXMLGz ----

\* Variant of the entry that opens the final path before genXML has run.
GenXMLGz_Begin_CreateFirst ==
    /\ genPc = "idle"
    /\ dlPc = "idle"
    /\ runs < MaxRuns
    /\ runs' = runs + 1
    /\ genPc' = "fetchChannels"
    /\ genErr' = ""
    /\ genResult' = "running"
    /\ genPre' = file
    /\ file' = [st |-> "empty", ver |-> runs + 1]
    /\ UNCHANGED <<tmp, dlPc, dlHops, dlResult, dlPre, seen>>
    /\ UNCHANGED notEPG

\* Entry of GenXMLGz: it calls genXML first.
GenXMLGz_Begin ==
    /\ genPc = "idle"
    /\ dlPc = "idle"
    /\ runs < MaxRuns
    /\ runs' = runs + 1
    /\ genPc' = "fetchChannels"
    /\ genErr' = ""
    /\ genResult' = "running"
    /\ genPre' = file
    /\ UNCHANGED <<file, tmp, dlPc, dlHops, dlResult, dlPre, seen>>
    /\ UNCHANGED notEPG

\* GenXMLGz returns err as soon as genXML returned one.
GenReturn(e) ==
    /\ genPc' = "idle"
    /\ genErr' = e
    /\ genResult' = e

\* genXML: the channel-list request; MakeHTTPRequest fails or answers.
genXML_FetchChannels ==
    /\ genPc = "fetchChannels"
    /\ \/ GenReturn("fetch")
       \/ genPc' = "status" /\ UNCHANGED <<genErr, genResult>>
    /\ UNCHANGED <<file, tmp, runs, genPre, dlPc, dlHops, dlResult, dlPre, seen>>
    /\ UNCHANGED notEPG

\* genXML: a status other than 200 ends the run.
genXML_Status ==
    /\ genPc = "status"
    /\ \/ GenReturn("status")
       \/ genPc' = "body" /\ UNCHANGED <<genErr, genResult>>
    /\ UNCHANGED <<file, tmp, runs, genPre, dlPc, dlHops, dlResult, dlPre, seen>>
    /\ UNCHANGED notEPG

\* genXML: responseBody (gunzip) and json.Unmarshal of the channel list.
genXML_Decode ==
    /\ genPc = "body"
    /\ \/ GenReturn("body")
       \/ GenReturn("parse")
       \/ genPc' = "fetchEPG" /\ UNCHANGED <<genErr, genResult>>
    /\ UNCHANGED <<file, tmp, runs, genPre, dlPc, dlHops, dlResult, dlPre, seen>>
    /\ UNCHANGED notEPG

\* genXML: the worker pool fetches the programmes and wg.Wait returns.
genXML_FetchEPG ==
    /\ genPc = "fetchEPG"
    /\ genPc' = "marshal"
    /\ UNCHANGED <<file, tmp, runs, genErr, genResult, genPre,
                   dlPc, dlHops, dlResult, dlPre, seen>>
    /\ UNCHANGED notEPG

\* genXML: xml.Marshal of the assembled document.
genXML_Marshal ==
    /\ genPc = "marshal"
    /\ \/ GenReturn("marshal")
       \/ genPc' = "create" /\ UNCHANGED <<genErr, genResult>>
    /\ UNCHANGED <<file, tmp, runs, genPre, dlPc, dlHops, dlResult, dlPre, seen>>
    /\ UNCHANGED notEPG

\* os.Create(filename) opens the final path itself with O_TRUNC.
GenXMLGz_Create ==
    /\ genPc = "create"
    /\ \/ GenReturn("create") /\ UNCHANGED file
       \/ /\ genPc' = "write"
          /\ file' = [st |-> "empty", ver |-> runs]
          /\ UNCHANGED <<genErr, genResult>>
    /\ UNCHANGED <<tmp, runs, genPre, dlPc, dlHops, dlResult, dlPre, seen>>
    /\ UNCHANGED notEPG

\* gz.Write(xml): the gzip header and the blocks compressed so far reach the
\* file; the tail of the stream stays buffered until gz.Close.
GenXMLGz_Write ==
    /\ genPc = "write"
    /\ genPc' = "gzClose"
    /\ \/ /\ genErr' = "write"
          /\ \E s \in {"empty", "partial"} : file' = [st |-> s, ver |-> runs]
       \/ /\ genErr' = ""
          /\ file' = [st |-> "partial", ver |-> runs]
    /\ UNCHANGED <<tmp, runs, genResult, genPre, dlPc, dlHops, dlResult, dlPre, seen>>
    /\ UNCHANGED notEPG

\* defer gz.Close(): flushes the tail and the trailer unless the writer is
\* already in error; its own error is dropped.
GenXMLGz_GzClose ==
    /\ genPc = "gzClose"
    /\ genPc' = "fClose"
    /\ \/ genErr = "" /\ file' = [st |-> "complete", ver |-> runs]
       \/ UNCHANGED file
    /\ UNCHANGED <<tmp, runs, genErr, genResult, genPre,
                   dlPc, dlHops, dlResult, dlPre, seen>>
    /\ UNCHANGED notEPG

\* defer f.Close(), then the return of nil or of the write error.
GenXMLGz_Return ==
    /\ genPc = "fClose"
    /\ genPc' = "idle"
    /\ genResult' = (IF genErr = "" THEN "ok" ELSE genErr)
    /\ UNCHANGED <<file, tmp, runs, genErr, genPre,
                   dlPc, dlHops, dlResult, dlPre, seen>>
    /\ UNCHANGED notEPG

GenXMLGz ==
    \/ GenXMLGz_Begin
    \/ genXML_FetchChannels
    \/ genXML_Status
    \/ genXML_Decode
    \/ genXML_FetchEPG
    \/ genXML_Marshal
    \/ GenXMLGz_Create
    \/ GenXMLGz_Write
    \/ GenXMLGz_GzClose
    \/ GenXMLGz_Return

\* ---- DownloadExternalEPG ----

DlReturn(e) ==
    /\ dlPc' = "idle"
    /\ dlResult' = e

DownloadExternalEPG_Begin ==
    /\ dlPc = "idle"
    /\ genPc = "idle"
    /\ runs < MaxRuns
    /\ runs' = runs + 1
    /\ dlPc' = "request"
    /\ dlHops' = 0
    /\ dlResult' = "running"
    /\ dlPre' = file
    /\ UNCHANGED <<file, tmp, genPc, genErr, genResult, genPre, seen>>
    /\ UNCHANGED notEPG

\* One pass of the redirect loop: client.DoTimeout and the status checks.
DownloadExternalEPG_Request ==
    /\ dlPc = "request"
    /\ dlHops < MaxRedirects
    /\ \/ DlReturn("transport") /\ UNCHANGED dlHops
       \/ DlReturn("redirect") /\ UNCHANGED dlHops
       \/ DlReturn("status") /\ UNCHANGED dlHops
       \/ dlHops' = dlHops + 1 /\ UNCHANGED <<dlPc, dlResult>>
       \/ dlPc' = "writeTmp" /\ UNCHANGED <<dlHops, dlResult>>
    /\ UNCHANGED <<file, tmp, runs, genPc, genErr, genResult, genPre, dlPre, seen>>
    /\ UNCHANGED notEPG

\* The loop ran MaxRedirects times without a final answer.
DownloadExternalEPG_TooManyRedirects ==
    /\ dlPc = "request"
    /\ dlHops = MaxRedirects
    /\ DlReturn("too many redirects")
    /\ UNCHANGED <<file, tmp, runs, genPc, genErr, genResult, genPre,
                   dlHops, dlPre, seen>>
    /\ UNCHANGED notEPG

\* os.WriteFile(tmp, data, 0644)
DownloadExternalEPG_WriteTmp ==
    /\ dlPc = "writeTmp"
    /\ \/ /\ DlReturn("write")
          /\ \E s \in {"empty", "partial"} : tmp' = [st |-> s, ver |-> runs]
       \/ /\ dlPc' = "remove"
          /\ tmp' = [st |-> "complete", ver |-> runs]
          /\ UNCHANGED dlResult
    /\ UNCHANGED <<file, runs, genPc, genErr, genResult, genPre, dlHops, dlPre, seen>>
    /\ UNCHANGED notEPG

\* _ = os.Remove(filename): the error is dropped.
DownloadExternalEPG_Remove ==
    /\ dlPc = "remove"
    /\ dlPc' = "rename"
    /\ \/ file' = Absent
       \/ UNCHANGED file
    /\ UNCHANGED <<tmp, runs, genPc, genErr, genResult, genPre,
                   dlHops, dlResult, dlPre, seen>>
    /\ UNCHANGED notEPG

\* return os.Rename(tmp, filename)
DownloadExternalEPG_Rename ==
    /\ dlPc = "rename"
    /\ \/ /\ DlReturn("ok")
          /\ file' = tmp
          /\ tmp' = Absent
       \/ /\ DlReturn("rename")
          /\ UNCHANGED <<file, tmp>>
    /\ UNCHANGED <<runs, genPc, genErr, genResult, genPre, dlHops, dlPre, seen>>
    /\ UNCHANGED notEPG

DownloadExternalEPG ==
    \/ DownloadExternalEPG_Begin
    \/ DownloadExternalEPG_Request
    \/ DownloadExternalEPG_TooManyRedirects
    \/ DownloadExternalEPG_WriteTmp
    \/ DownloadExternalEPG_Remove
    \/ DownloadExternalEPG_Rename

\* A request for /epg.xml.gz, or any other reader, looks at the final path.
ReadArtifact ==
    /\ seen' = file
    /\ UNCHANGED <<file, tmp, runs, genPc, genErr, genResult, genPre,
                   dlPc, dlHops, dlResult, dlPre>>
    /\ UNCHANGED notEPG

EPGNext ==
    \/ GenXMLGz
    \/ DownloadExternalEPG
    \/ ReadArtifact


(***************************************************************************)
(* pkg/television: custom channels                                         *)
(***************************************************************************)
\* Strings the code takes apart are sequences of characters.
StrHasPrefix(str, prefix) ==
    /\ Len(str) >= Len(prefix)
    /\ SubSeq(str, 1, Len(prefix)) = prefix

\* Variant without a reserved prefix.
CC_PREFIX_None == <<>>

CC_PREFIX == <<"c", "c", "_">>

\* Entries of a custom-channel file; Name stands for the fields that are
\* copied through unchanged (name, url, logo, category, language, is_hd).
Entry(id, name) == [ID |-> id, Name |-> name]

ConfigA == <<Entry(<<"1">>, "a"), Entry(<<"c", "c", "_", "2">>, "a")>>

ConfigB == <<Entry(<<"1">>, "b"), Entry(<<"c", "c", "_", "2">>, "b")>>

\* A file in which two entries get the same id once both are prefixed.
ConfigC == <<Entry(<<"1">>, "a"), Entry(<<"c", "c", "_", "1">>, "b")>>

Configs == {ConfigA, ConfigB, ConfigC}

\* builtInCustomChannelsJSON, already unmarshalled.
builtInCustomChannelsJSON ==
    <<Entry(<<"c", "u", "s", "t", "o", "m", "_", "n", "e", "w", "s", "_", "1">>,
            "Sample News Channel"),
      Entry(<<"c", "u", "s", "t", "o", "m", "_", "e", "n", "t", "e", "r", "t", "a",
              "i", "n", "m", "e", "n", "t", "_", "1">>,
            "Sample Entertainment Channel")>>

\* What utils.CheckAndReadFile and detectAndParseFormat can find at the path.
DiskStates ==
    {[kind |-> "missing"], [kind |-> "unreadable"], [kind |-> "malformed"]}
        \cup {[kind |-> "config", channels |-> c] : c \in Configs}

PathKinds == {"empty", "default", "other"}

isDefaultCustomChannelsPath(filePath) == filePath = "default"

\* Variant that prefixes every id, prefixed or not.
convertCustomConfigToChannels_AlwaysPrefix(customConfig) ==
    [i \in 1..Len(customConfig) |->
        [ID   |-> CC_PREFIX \o customConfig[i].ID,
         Name |-> customConfig[i].Name]]

convertCustomConfigToChannels(customConfig) ==
    [i \in 1..Len(customConfig) |->
        [ID   |-> IF StrHasPrefix(customConfig[i].ID, CC_PREFIX)
                  THEN customConfig[i].ID
                  ELSE CC_PREFIX \o customConfig[i].ID,
         Name |-> customConfig[i].Name]]

\* Variant that returns an empty catalog for every absent file.
LoadCustomChannels_NoBuiltIn(filePath, d) ==
    IF filePath = "empty"
    THEN [channels |-> <<>>, err |-> FALSE]
    ELSE IF d.kind = "missing"
    THEN [channels |-> <<>>, err |-> FALSE]
    ELSE IF d.kind = "unreadable"
    THEN [channels |-> <<>>, err |-> TRUE]
    ELSE IF d.kind = "malformed"
    THEN [channels |-> <<>>, err |-> TRUE]
    ELSE [channels |-> convertCustomConfigToChannels(d.channels), err |-> FALSE]

\* LoadCustomChannels(filePath) when the file is in state d: the channels and
\* whether the error is non-nil.
LoadCustomChannels(filePath, d) ==
    IF filePath = "empty"
    THEN [channels |-> <<>>, err |-> FALSE]
    ELSE IF d.kind = "missing"
    THEN IF isDefaultCustomChannelsPath(filePath)
         THEN [channels |-> convertCustomConfigToChannels(builtInCustomChannelsJSON),
               err |-> FALSE]
         ELSE [channels |-> <<>>, err |-> FALSE]
    ELSE IF d.kind = "unreadable"
    THEN [channels |-> <<>>, err |-> TRUE]
    ELSE IF d.kind = "malformed"
    THEN [channels |-> <<>>, err |-> TRUE]
    ELSE [channels |-> convertCustomConfigToChannels(d.channels), err |-> FALSE]

\* Go maps: a map value is a reference to a map object.
NilRef == 0

Refs == 1..MaxReloads

EmptyMap == [k \in {} |-> k]

MapPut(m, k, v) == [x \in (DOMAIN m) \cup {k} |-> IF x = k THEN v ELSE m[x]]

MapRange(m) == {m[k] : k \in DOMAIN m}

\* The object a map value denotes; a nil map reads as the empty map.
Deref(ref) == IF ref = NilRef THEN EmptyMap ELSE heap[ref]

Readers == {"r1", "r2"}

\* The ids requests look up.
LookupIDs == {<<"c", "c", "_", "1">>, <<"1">>}

NoResult == [op |-> "none"]

CacheIdle ==
    /\ cfgPath = "empty"
    /\ heap = [r \in Refs |-> EmptyMap]
    /\ cacheRef = NilRef
    /\ rwReaders = {}
    /\ rwWriter = FALSE
    /\ reloads = 0
    /\ relPc = "idle"
    /\ relChannels = <<>>
    /\ relErr = FALSE
    /\ relNext = NilRef
    /\ relIdx = 1
    /\ rdPc = [r \in Readers |-> "idle"]
    /\ rdOp = [r \in Readers |-> NoResult]
    /\ rdRef = [r \in Readers |-> NilRef]
    /\ rdAcc = [r \in Readers |-> <<>>]

CacheInit ==
    /\ cfgPath \in PathKinds
    /\ heap = [r \in Refs |-> EmptyMap]
    /\ cacheRef = NilRef
    /\ rwReaders = {}
    /\ rwWriter = FALSE
    /\ reloads = 0
    /\ relPc = "idle"
    /\ relChannels = <<>>
    /\ relErr = FALSE
    /\ relNext = NilRef
    /\ relIdx = 1
    /\ rdPc = [r \in Readers |-> "idle"]
    /\ rdOp = [r \in Readers |-> NoResult]
    /\ rdRef = [r \in Readers |-> NilRef]
    /\ rdAcc = [r \in Readers |-> <<>>]

\* ---- sync.RWMutex ----
\* Lock() returns only when no reader and no writer holds the mutex.
\* Variant: the writer takes the lock the way a reader does.
CanLock_LikeReader == ~rwWriter

CanLock == rwReaders = {} /\ ~rwWriter

\* RLock() returns only when no writer holds the mutex or waits for it.
CanRLock == ~rwWriter /\ relPc # "lockWait"

\* ---- ReloadCustomChannels / InitCustomChannels / loadAndCacheCustomChannels ----

\* The guard of ReloadCustomChannels, then the first two statements of
\* loadAndCacheCustomChannels: LoadCustomChannels, which finds the file in
\* some state d, and next := make(map).
loadAndCacheCustomChannels_Load ==
    /\ relPc = "idle"
    /\ cfgPath # "empty"
    /\ reloads < MaxReloads
    /\ reloads' = reloads + 1
    /\ \E d \in DiskStates :
         LET r == LoadCustomChannels(cfgPath, d) IN
           /\ relChannels' = r.channels
           /\ relErr' = r.err
           /\ relPc' = IF r.err THEN "lock" ELSE "build"
    /\ relNext' = reloads + 1
    /\ heap' = [heap EXCEPT ![reloads + 1] = EmptyMap]
    /\ relIdx' = 1
    /\ UNCHANGED <<cfgPath, cacheRef, rwReaders, rwWriter,
                   rdPc, rdOp, rdRef, rdAcc>>
    /\ UNCHANGED notCache

\* for _, channel := range channels { next[channel.ID] = channel }
loadAndCacheCustomChannels_Build ==
    /\ relPc = "build"
    /\ IF relIdx <= Len(relChannels)
       THEN /\ heap' = [heap EXCEPT ![relNext] =
                          MapPut(@, relChannels[relIdx].ID, relChannels[relIdx])]
            /\ relIdx' = relIdx + 1
            /\ UNCHANGED relPc
       ELSE /\ relPc' = "lock"
            /\ UNCHANGED <<heap, relIdx>>
    /\ UNCHANGED <<cfgPath, cacheRef, rwReaders, rwWriter, reloads,
                   relChannels, relErr, relNext, rdPc, rdOp, rdRef, rdAcc>>
    /\ UNCHANGED notCache

\* customChannelsMu.Lock() is called: the writer starts to wait.
loadAndCacheCustomChannels_LockCall ==
    /\ relPc = "lock"
    /\ relPc' = "lockWait"
    /\ UNCHANGED <<cfgPath, heap, cacheRef, rwReaders, rwWriter, reloads,
                   relChannels, relErr, relNext, relIdx,
                   rdPc, rdOp, rdRef, rdAcc>>
    /\ UNCHANGED notCache

\* customChannelsMu.Lock() returns.
loadAndCacheCustomChannels_Lock ==
    /\ relPc = "lockWait"
    /\ CanLock
    /\ rwWriter' = TRUE
    /\ relPc' = "swap"
    /\ UNCHANGED <<cfgPath, heap, cacheRef, rwReaders, reloads,
                   relChannels, relErr, relNext, relIdx,
                   rdPc, rdOp, rdRef, rdAcc>>
    /\ UNCHANGED notCache

\* customChannelsCacheMap = next; the map it replaces is garbage once no
\* reader ranges over it.
loadAndCacheCustomChannels_Swap ==
    /\ relPc = "swap"
    /\ cacheRef' = relNext
    /\ heap' = IF cacheRef # NilRef /\ \A r \in Readers : rdRef[r] # cacheRef
               THEN [heap EXCEPT ![cacheRef] = EmptyMap]
               ELSE heap
    /\ relPc' = "unlock"
    /\ UNCHANGED <<cfgPath, rwReaders, rwWriter, reloads,
                   relChannels, relErr, relNext, relIdx,
                   rdPc, rdOp, rdRef, rdAcc>>
    /\ UNCHANGED notCache

\* customChannelsMu.Unlock() and the return.
loadAndCacheCustomChannels_Unlock ==
    /\ relPc = "unlock"
    /\ rwWriter' = FALSE
    /\ relPc' = "idle"
    /\ relChannels' = <<>>
    /\ relNext' = NilRef
    /\ relIdx' = 1
    /\ UNCHANGED <<cfgPath, heap, cacheRef, rwReaders, reloads, relErr,
                   rdPc, rdOp, rdRef, rdAcc>>
    /\ UNCHANGED notCache

loadAndCacheCustomChannels ==
    \/ loadAndCacheCustomChannels_Load
    \/ loadAndCacheCustomChannels_Build
    \/ loadAndCacheCustomChannels_LockCall
    \/ loadAndCacheCustomChannels_Lock
    \/ loadAndCacheCustomChannels_Swap
    \/ loadAndCacheCustomChannels_Unlock

\* ---- getCustomChannelByID ----

\* customChannelsMu.RLock() at the head of either reader.
Reader_RLock(r) ==
    /\ rdPc[r] = "idle"
    /\ CanRLock
    /\ rwReaders' = rwReaders \cup {r}
    /\ \/ \E id \in LookupIDs : rdOp' = [rdOp EXCEPT ![r] = [op |-> "byID", id |-> id]]
       \/ rdOp' = [rdOp EXCEPT ![r] = [op |-> "all"]]
    /\ rdPc' = [rdPc EXCEPT ![r] = "read"]
    /\ UNCHANGED <<cfgPath, heap, cacheRef, rwWriter, reloads,
                   relPc, relChannels, relErr, relNext, relIdx, rdRef, rdAcc>>
    /\ UNCHANGED notCache

\* The nil check and the lookup customChannelsCacheMap[channelID].
getCustomChannelByID_Lookup(r) ==
    /\ rdPc[r] = "read"
    /\ rdOp[r].op = "byID"
    /\ rdAcc' = [rdAcc EXCEPT ![r] =
                   IF cacheRef # NilRef /\ rdOp[r].id \in DOMAIN heap[cacheRef]
                   THEN <<heap[cacheRef][rdOp[r].id]>>
                   ELSE <<>>]
    /\ rdPc' = [rdPc EXCEPT ![r] = "unlock"]
    /\ UNCHANGED <<cfgPath, heap, cacheRef, rwReaders, rwWriter, reloads,
                   relPc, relChannels, relErr, relNext, relIdx, rdOp, rdRef>>
    /\ UNCHANGED notCache

\* ---- getCustomChannels ----

\* for _, channel := range customChannelsCacheMap: the range expression is
\* evaluated once.
getCustomChannels_Range(r) ==
    /\ rdPc[r] = "read"
    /\ rdOp[r].op \in {"all", "channels"}
    /\ rdRef' = [rdRef EXCEPT ![r] = cacheRef]
    /\ rdPc' = [rdPc EXCEPT ![r] = "iter"]
    /\ UNCHANGED <<cfgPath, heap, cacheRef, rwReaders, rwWriter, reloads,
                   relPc, relChannels, relErr, relNext, relIdx, rdOp, rdAcc>>
    /\ UNCHANGED notCache

Visited(r) == {rdAcc[r][i].ID : i \in 1..Len(rdAcc[r])}

\* One iteration: customChannels = append(customChannels, channel), in the
\* order the map yields its entries; the loop ends when none is left.
getCustomChannels_Iter(r) ==
    /\ rdPc[r] = "iter"
    /\ LET m == Deref(rdRef[r])
           left == (DOMAIN m) \ Visited(r)
       IN IF left = {}
          THEN /\ rdPc' = [rdPc EXCEPT ![r] = "unlock"]
               /\ UNCHANGED rdAcc
          ELSE /\ \E k \in left : rdAcc' = [rdAcc EXCEPT ![r] = Append(@, m[k])]
               /\ UNCHANGED rdPc
    /\ UNCHANGED <<cfgPath, heap, cacheRef, rwReaders, rwWriter, reloads,
                   relPc, relChannels, relErr, relNext, relIdx, rdOp, rdRef>>
    /\ UNCHANGED notCache

\* defer customChannelsMu.RUnlock() of either reader: the call has returned
\* rdAcc (for a lookup: the channel, or nothing when it does not exist).
Reader_RUnlock(r) ==
    /\ rdPc[r] = "unlock"
    /\ rwReaders' = rwReaders \ {r}
    /\ rdPc' = [rdPc EXCEPT ![r] = "returned"]
    /\ rdRef' = [rdRef EXCEPT ![r] = NilRef]
    /\ UNCHANGED <<cfgPath, heap, cacheRef, rwWriter, reloads,
                   relPc, relChannels, relErr, relNext, relIdx, rdOp, rdAcc>>
    /\ UNCHANGED notCache

\* The caller has used the result.
Reader_Done(r) ==
    /\ \/ rdPc[r] = "returned" /\ rdOp[r].op # "channels"
       \/ rdPc[r] = "merged"
    /\ rdPc' = [rdPc EXCEPT ![r] = "idle"]
    /\ rdOp' = [rdOp EXCEPT ![r] = NoResult]
    /\ rdAcc' = [rdAcc EXCEPT ![r] = <<>>]
    /\ UNCHANGED <<cfgPath, heap, cacheRef, rwReaders, rwWriter, reloads,
                   relPc, relChannels, relErr, relNext, relIdx, rdRef>>
    /\ UNCHANGED notCache

\* ---- Channels ----

\* The channels of the JioTV API, which numbers them.
UpstreamChannels == <<Entry(<<"1">>, "u"), Entry(<<"2">>, "u")>>

\* What the API answers.
UpstreamResults == {UpstreamChannels}

\* The request or the parsing of its response fails:
\* return ChannelsResponse{}, err
Channels_FetchFailed(r) ==
    /\ rdPc[r] = "idle"
    /\ rdOp' = [rdOp EXCEPT ![r] = [op |-> "channels", upstream |-> <<>>, err |-> TRUE]]
    /\ rdPc' = [rdPc EXCEPT ![r] = "merged"]
    /\ UNCHANGED <<cfgPath, heap, cacheRef, rwReaders, rwWriter, reloads,
                   relPc, relChannels, relErr, relNext, relIdx, rdRef, rdAcc>>
    /\ UNCHANGED notCache

\* apiResponse is parsed; without a custom-channels file it is returned.
Channels_Fetch(r) ==
    /\ rdPc[r] = "idle"
    /\ \E u \in UpstreamResults :
         /\ rdOp' = [rdOp EXCEPT ![r] = [op |-> "channels", upstream |-> u, err |-> FALSE]]
         /\ IF cfgPath # "empty"
            THEN /\ rdPc' = [rdPc EXCEPT ![r] = "fetched"]
                 /\ UNCHANGED rdAcc
            ELSE /\ rdPc' = [rdPc EXCEPT ![r] = "merged"]
                 /\ rdAcc' = [rdAcc EXCEPT ![r] = u]
    /\ UNCHANGED <<cfgPath, heap, cacheRef, rwReaders, rwWriter, reloads,
                   relPc, relChannels, relErr, relNext, relIdx, rdRef>>
    /\ UNCHANGED notCache

\* customChannelsMu.RLock() of the getCustomChannels() Channels calls.
Channels_RLock(r) ==
    /\ rdPc[r] = "fetched"
    /\ CanRLock
    /\ rwReaders' = rwReaders \cup {r}
    /\ rdPc' = [rdPc EXCEPT ![r] = "read"]
    /\ UNCHANGED <<cfgPath, heap, cacheRef, rwWriter, reloads,
                   relPc, relChannels, relErr, relNext, relIdx, rdOp, rdRef, rdAcc>>
    /\ UNCHANGED notCache

\* apiResponse.Result = append(apiResponse.Result, customChannels...)
Channels_Append(r) ==
    /\ rdPc[r] = "returned"
    /\ rdOp[r].op = "channels"
    /\ rdAcc' = [rdAcc EXCEPT ![r] = rdOp[r].upstream \o rdAcc[r]]
    /\ rdPc' = [rdPc EXCEPT ![r] = "merged"]
    /\ UNCHANGED <<cfgPath, heap, cacheRef, rwReaders, rwWriter, reloads,
                   relPc, relChannels, relErr, relNext, relIdx, rdOp, rdRef>>
    /\ UNCHANGED notCache

CacheReaders ==
    \E r \in Readers :
        \/ Reader_RLock(r)
        \/ Channels_FetchFailed(r)
        \/ Channels_Fetch(r)
        \/ Channels_RLock(r)
        \/ Channels_Append(r)
        \/ getCustomChannelByID_Lookup(r)
        \/ getCustomChannels_Range(r)
        \/ getCustomChannels_Iter(r)
        \/ Reader_RUnlock(r)
        \/ Reader_Done(r)

CacheNext ==
    \/ loadAndCacheCustomChannels
    \/ CacheReaders

(***************************************************************************)
(* pkg/television: the upstream resolution client                          *)
(***************************************************************************)
\* strings.Index, 1-based: the first position of sub in str, 0 when absent
\* (Go: -1).
StrIndex(str, sub) ==
    LET hits == {i \in 1..(Len(str) - Len(sub) + 1) : SubSeq(str, i, i + Len(sub) - 1) = sub}
    IN IF hits = {} THEN 0 ELSE CHOOSE i \in hits : \A j \in hits : i <= j

StrContains(str, sub) == StrIndex(str, sub) # 0

HDNEA == <<"h", "d", "n", "e", "a", "=">>

\* extractHdneaFromURL, the closure of Live and of GetCatchupURL.
extractHdneaFromURL(u) ==
    IF u = <<>> THEN <<>>
    ELSE LET idx == StrIndex(u, HDNEA) IN
         IF idx = 0 THEN <<>>
         ELSE LET token == SubSeq(u, idx + Len(HDNEA), Len(u))
                  i == StrIndex(token, <<"&">>)
              IN IF i # 0 THEN SubSeq(token, 1, i - 1) ELSE token

\* appendHdnea, the closure of Live.
appendHdnea(u, hdnea) ==
    IF u = <<>> THEN u
    ELSE IF StrContains(u, HDNEA) THEN u
    ELSE LET sep == IF StrContains(u, <<"?">>) THEN <<"&">> ELSE <<"?">>
         IN u \o sep \o HDNEA \o hdnea

\* The URLs of the decoded responses.
U == <<"u">>

Q == <<"?", "q">>

HA == HDNEA \o <<"A">>

HB == HDNEA \o <<"B">>

AutoURLs ==
    {<<>>, U, U \o Q, U \o <<"?">> \o HA, U \o <<"?">> \o HB,
     U \o Q \o <<"&">> \o HA, U \o <<"?">> \o HA \o <<"&", "q">>,
     U \o <<"?">> \o HDNEA}

HighURLs == {<<>>, U, U \o Q, U \o <<"?">> \o HA, U \o <<"?">> \o HB}

MediumURLs == {<<>>, U \o Q}

LowURLs == {<<>>, U}

ResultURLs == {<<>>, U, U \o <<"?">> \o HA, U \o <<"?">> \o HB \o <<"&", "q">>}

MpdResultURLs == {<<>>, <<"m">>, <<"m", "?">> \o HB}

MpdKeyURLs == {<<>>, <<"k">>}

\* LiveURLOutput as json.Unmarshal fills it: Hdnea is not in the body.
Bodies ==
    [Auto : AutoURLs, High : HighURLs, Medium : MediumURLs, Low : LowURLs,
     Result : ResultURLs, MpdResult : MpdResultURLs, MpdKey : MpdKeyURLs,
     Hdnea : {<<>>}]

NoBody ==
    [Auto |-> <<>>, High |-> <<>>, Medium |-> <<>>, Low |-> <<>>,
     Result |-> <<>>, MpdResult |-> <<>>, MpdKey |-> <<>>, Hdnea |-> <<>>]

\* Live, from the decoded result to the value it returns.
Live_Hdnea(result) ==
    LET a == extractHdneaFromURL(result.Auto)
        hdnea == IF a = <<>> THEN extractHdneaFromURL(result.MpdResult) ELSE a
    IN IF hdnea = <<>>
       THEN [result EXCEPT !.Hdnea = hdnea]
       ELSE [Auto      |-> appendHdnea(result.Auto, hdnea),
             High      |-> appendHdnea(result.High, hdnea),
             Medium    |-> appendHdnea(result.Medium, hdnea),
             Low       |-> appendHdnea(result.Low, hdnea),
             Result    |-> appendHdnea(result.Result, hdnea),
             MpdResult |-> IF result.MpdResult # <<>>
                           THEN appendHdnea(result.MpdResult, hdnea)
                           ELSE result.MpdResult,
             MpdKey    |-> IF result.MpdKey # <<>>
                           THEN appendHdnea(result.MpdKey, hdnea)
                           ELSE result.MpdKey,
             Hdnea     |-> hdnea]

\* Variant of GetCatchupURL's scan that looks at result.Result only.
GetCatchupURL_Hdnea_ResultOnly(result) ==
    [result EXCEPT !.Hdnea = extractHdneaFromURL(result.Result)]

\* GetCatchupURL, from the decoded result to the value it returns.
GetCatchupURL_Hdnea(result) ==
    LET r == extractHdneaFromURL(result.Result)
        hdnea == IF r = <<>> THEN extractHdneaFromURL(result.Auto) ELSE r
    IN [result EXCEPT !.Hdnea = hdnea]

LiveIdle ==
    /\ livePc = "idle"
    /\ liveKind = "jio"
    /\ liveReqs = 0
    /\ liveDepth = 0
    /\ liveBody = NoBody
    /\ liveEnd = "none"
    /\ liveOut = NoBody

LiveInit == LiveIdle

\* ---- Television.Live ----

\* The call, and the test for the "sl" namespace.
Live_Call ==
    /\ livePc = "idle"
    /\ \E k \in {"jio", "sl known", "sl unknown"} :
          /\ liveKind' = k
          /\ livePc' = IF k = "jio" THEN "request" ELSE "sl"
    /\ liveReqs' = 0
    /\ liveDepth' = 1
    /\ liveBody' = NoBody
    /\ liveEnd' = "none"
    /\ liveOut' = NoBody
    /\ UNCHANGED notLive

LiveReturn(how, out) ==
    /\ livePc' = "idle"
    /\ liveEnd' = how
    /\ liveOut' = out

\* getSLChannel: a miss in SONY_JIO_MAP is an error; a hit sends one GET and
\* returns the Location header, and panics on a transport error or on a
\* status other than 302.
getSLChannel ==
    /\ livePc = "sl"
    /\ \/ /\ liveKind = "sl unknown"
          /\ LiveReturn("error: channel not found", NoBody)
          /\ UNCHANGED liveReqs
       \/ /\ liveKind = "sl known"
          /\ liveReqs' = liveReqs + 1
          /\ \/ LiveReturn("panic", NoBody)
             \/ \E loc \in {U, U \o <<"?">> \o HA} :
                   LiveReturn("result", [NoBody EXCEPT !.Result = loc, !.Auto = loc])
    /\ UNCHANGED <<liveKind, liveDepth, liveBody>>
    /\ UNCHANGED notLive

\* tv.Client.Do fails with "server closed connection before returning the
\* first response byte": return tv.Live(channelID).
Live_Retry ==
    /\ livePc = "request"
    /\ liveReqs < MaxLiveReqs
    /\ liveReqs' = liveReqs + 1
    /\ liveDepth' = liveDepth + 1
    /\ UNCHANGED <<livePc, liveKind, liveBody, liveEnd, liveOut>>
    /\ UNCHANGED notLive

\* tv.Client.Do fails with any other error: utils.Log.Panic(err).
Live_TransportError ==
    /\ livePc = "request"
    /\ liveReqs < MaxLiveReqs
    /\ liveReqs' = liveReqs + 1
    /\ LiveReturn("panic: transport", NoBody)
    /\ UNCHANGED <<liveKind, liveDepth, liveBody>>
    /\ UNCHANGED notLive

\* The response has a status other than 200: utils.Log.Panicln.
Live_BadStatus ==
    /\ livePc = "request"
    /\ liveReqs < MaxLiveReqs
    /\ liveReqs' = liveReqs + 1
    /\ LiveReturn("panic: status", NoBody)
    /\ UNCHANGED <<liveKind, liveDepth, liveBody>>
    /\ UNCHANGED notLive

\* Status 200 and json.Unmarshal fails: utils.Log.Panic(err).
Live_DecodeError ==
    /\ livePc = "request"
    /\ liveReqs < MaxLiveReqs
    /\ liveReqs' = liveReqs + 1
    /\ LiveReturn("panic: decode", NoBody)
    /\ UNCHANGED <<liveKind, liveDepth, liveBody>>
    /\ UNCHANGED notLive

\* Status 200 and a body that decodes: the hdnea pass and return &result, nil.
Live_Success ==
    /\ livePc = "request"
    /\ liveReqs < MaxLiveReqs
    /\ liveReqs' = liveReqs + 1
    /\ \E b \in Bodies :
          /\ liveBody' = b
          /\ LiveReturn("result", Live_Hdnea(b))
    /\ UNCHANGED <<liveKind, liveDepth>>
    /\ UNCHANGED notLive

LiveNext ==
    \/ Live_Call
    \/ getSLChannel
    \/ Live_Retry
    \/ Live_TransportError
    \/ Live_BadStatus
    \/ Live_DecodeError
    \/ Live_Success

\* ---- Television.GetCatchupURL ----

\* maxRetries := 3
maxRetries == 3

CatchupIdle ==
    /\ catPc = "idle"
    /\ catAttempts = 0
    /\ catGotResp = FALSE
    /\ catBody = NoBody
    /\ catEnd = "none"
    /\ catOut = NoBody

CatchupInit == CatchupIdle

GetCatchupURL_Call ==
    /\ catPc = "idle"
    /\ catPc' = "loop"
    /\ catAttempts' = 0
    /\ catGotResp' = FALSE
    /\ catBody' = NoBody
    /\ catEnd' = "none"
    /\ catOut' = NoBody
    /\ UNCHANGED notCatchup

CatchupReturn(how, out) ==
    /\ catPc' = "idle"
    /\ catEnd' = how
    /\ catOut' = out

\* The loop head: i < maxRetries fails and the loop is left.
GetCatchupURL_LoopExit ==
    /\ catPc = "loop"
    /\ catAttempts = maxRetries
    /\ catPc' = "status"
    /\ UNCHANGED <<catAttempts, catGotResp, catBody, catEnd, catOut>>
    /\ UNCHANGED notCatchup

\* tv.Client.Do fails with the transient error: continue.
GetCatchupURL_Retry ==
    /\ catPc = "loop"
    /\ catAttempts < maxRetries
    /\ catAttempts' = catAttempts + 1
    /\ UNCHANGED <<catPc, catGotResp, catBody, catEnd, catOut>>
    /\ UNCHANGED notCatchup

\* tv.Client.Do fails with any other error: utils.Log.Panicln(err).
GetCatchupURL_TransportError ==
    /\ catPc = "loop"
    /\ catAttempts < maxRetries
    /\ catAttempts' = catAttempts + 1
    /\ CatchupReturn("panic: transport", NoBody)
    /\ UNCHANGED <<catGotResp, catBody>>
    /\ UNCHANGED notCatchup

\* tv.Client.Do succeeds: break.
GetCatchupURL_Response ==
    /\ catPc = "loop"
    /\ catAttempts < maxRetries
    /\ catAttempts' = catAttempts + 1
    /\ catGotResp' = TRUE
    /\ catPc' = "status"
    /\ UNCHANGED <<catBody, catEnd, catOut>>
    /\ UNCHANGED notCatchup

\* resp.StatusCode() != fasthttp.StatusOK: the error payload is logged and a
\* generic error returned.  Without a response the status is whatever the
\* failed calls left in resp.
GetCatchupURL_BadStatus ==
    /\ catPc = "status"
    /\ CatchupReturn("error: status", NoBody)
    /\ UNCHANGED <<catAttempts, catGotResp, catBody>>
    /\ UNCHANGED notCatchup

\* The status is 200: go on to json.Unmarshal(resp.Body(), &result).
GetCatchupURL_StatusOK ==
    /\ catPc = "status"
    /\ catPc' = "decode"
    /\ UNCHANGED <<catAttempts, catGotResp, catBody, catEnd, catOut>>
    /\ UNCHANGED notCatchup

\* json.Unmarshal fails (it always does on the empty body of a response that
\* was never received): utils.Log.Panicln(err).
GetCatchupURL_DecodeError ==
    /\ catPc = "decode"
    /\ CatchupReturn("panic: decode", NoBody)
    /\ UNCHANGED <<catAttempts, catGotResp, catBody>>
    /\ UNCHANGED notCatchup

\* The body decodes: the hdnea scan and return &result, nil.
GetCatchupURL_Success ==
    /\ catPc = "decode"
    /\ catGotResp
    /\ \E b \in Bodies :
          /\ catBody' = b
          /\ CatchupReturn("result", GetCatchupURL_Hdnea(b))
    /\ UNCHANGED <<catAttempts, catGotResp>>
    /\ UNCHANGED notCatchup

CatchupNext ==
    \/ GetCatchupURL_Call
    \/ GetCatchupURL_LoopExit
    \/ GetCatchupURL_Retry
    \/ GetCatchupURL_TransportError
    \/ GetCatchupURL_Response
    \/ GetCatchupURL_BadStatus
    \/ GetCatchupURL_StatusOK
    \/ GetCatchupURL_DecodeError
    \/ GetCatchupURL_Success

(***************************************************************************)
(* pkg/secureurl, as the handlers use it                                   *)
(***************************************************************************)
\* Upstream URLs are numbered; URL 0 is the empty string.  A token is a
\* sequence of bytes: the nonce, the ciphertext and the authentication tag.
URLs == 0..(NumURLs - 1)

Nonces == 0..(NumURLs - 1)

Bytes == 0..(NumURLs * NumURLs - 1)

\* The process-wide key.
Key == 1

\* The key stream for a nonce.
Pad(nonce) == (Key * (nonce + 1)) % NumURLs

\* The tag authenticates nonce and ciphertext under the key.
Tag(nonce, ct) == (nonce * NumURLs + ct + Key) % (NumURLs * NumURLs)

\* EncryptURL with the fresh nonce it drew.
EncryptURL(url, nonce) ==
    LET ct == (url + Pad(nonce)) % NumURLs
    IN <<nonce, ct, Tag(nonce, ct)>>

\* DecryptURL: the URL, or an error when the token does not authenticate.
DecryptURL(token) ==
    IF /\ Len(token) = 3
       /\ token[1] \in Nonces
       /\ token[2] \in URLs
       /\ token[3] = Tag(token[1], token[2])
    THEN [ok |-> TRUE, url |-> (token[2] + NumURLs - Pad(token[1])) % NumURLs]
    ELSE [ok |-> FALSE, url |-> 0]

(***************************************************************************)
(* pkg/plugins/zee5: ProxySegmentHandler and RenderHandler                 *)
(***************************************************************************)
\* The values of the auth parameter a client can send.
AuthParams ==
    {<<>>} \cup {<<a>> : a \in Bytes} \cup {<<a, b>> : a, b \in Bytes}
           \cup {<<a, b, c>> : a, b, c \in Bytes}

TokenIdle ==
    /\ tokPc = "idle"
    /\ tokHandler = "none"
    /\ tokAuth = <<>>
    /\ tokURL = 0
    /\ tokFetches = 0
    /\ tokStatus = "none"

TokenInit == TokenIdle

\* A request arrives at /zee5/render/segment.ts|mp4 or /zee5/render/playlist.m3u8.
Request ==
    /\ tokPc = "idle"
    /\ \E h \in {"segment", "render"} : tokHandler' = h
    /\ \E a \in AuthParams : tokAuth' = a
    /\ tokPc' = "decrypt"
    /\ tokURL' = 0
    /\ tokFetches' = 0
    /\ tokStatus' = "none"
    /\ UNCHANGED notToken

Respond(status) ==
    /\ tokPc' = "done"
    /\ tokStatus' = status

\* Variant of ProxySegmentHandler that goes on with whatever DecryptURL
\* returned.
ProxySegmentHandler_Decrypt_IgnoresErr ==
    /\ tokPc = "decrypt"
    /\ tokHandler = "segment"
    /\ IF tokAuth = <<>>
       THEN Respond("400 missing auth param") /\ UNCHANGED tokURL
       ELSE /\ tokURL' = DecryptURL(tokAuth).url
            /\ tokPc' = "fetch"
            /\ UNCHANGED tokStatus
    /\ UNCHANGED <<tokHandler, tokAuth, tokFetches>>
    /\ UNCHANGED notToken

\* ProxySegmentHandler up to the call of fetchContent.
ProxySegmentHandler_Decrypt ==
    /\ tokPc = "decrypt"
    /\ tokHandler = "segment"
    /\ IF tokAuth = <<>>
       THEN Respond("400 missing auth param") /\ UNCHANGED tokURL
       ELSE IF ~DecryptURL(tokAuth).ok
       THEN Respond("400 invalid auth param") /\ UNCHANGED tokURL
       ELSE /\ tokURL' = DecryptURL(tokAuth).url
            /\ tokPc' = "fetch"
            /\ UNCHANGED tokStatus
    /\ UNCHANGED <<tokHandler, tokAuth, tokFetches>>
    /\ UNCHANGED notToken

\* ProxySegmentHandler: fetchContent and the response.
ProxySegmentHandler_Fetch ==
    /\ tokPc = "fetch"
    /\ tokHandler = "segment"
    /\ tokFetches' = tokFetches + 1
    /\ \/ Respond("500 failed to fetch")
       \/ Respond("200")
    /\ UNCHANGED <<tokHandler, tokAuth, tokURL>>
    /\ UNCHANGED notToken

\* RenderHandler up to the call of handlePlaylist: the error of DecryptURL is
\* returned to the framework.
RenderHandler_Decrypt ==
    /\ tokPc = "decrypt"
    /\ tokHandler = "render"
    /\ IF ~DecryptURL(tokAuth).ok
       THEN Respond("error: decrypt") /\ UNCHANGED tokURL
       ELSE /\ tokURL' = DecryptURL(tokAuth).url
            /\ tokPc' = "fetch"
            /\ UNCHANGED tokStatus
    /\ UNCHANGED <<tokHandler, tokAuth, tokFetches>>
    /\ UNCHANGED notToken

\* handlePlaylist(c, false, coded_url, ...): the empty-URL test, fetchContent
\* and the response with the rewritten playlist.
handlePlaylist ==
    /\ tokPc = "fetch"
    /\ tokHandler = "render"
    /\ IF tokURL = 0
       THEN Respond("400 missing url param") /\ UNCHANGED tokFetches
       ELSE /\ tokFetches' = tokFetches + 1
            /\ \/ Respond("400 failed to fetch")
               \/ Respond("200")
    /\ UNCHANGED <<tokHandler, tokAuth, tokURL>>
    /\ UNCHANGED notToken

\* The response has been sent and the request is over.
RequestDone ==
    /\ tokPc = "done"
    /\ tokPc' = "idle"
    /\ tokHandler' = "none"
    /\ tokAuth' = <<>>
    /\ tokURL' = 0
    /\ tokFetches' = 0
    /\ tokStatus' = "none"
    /\ UNCHANGED notToken

TokenNext ==
    \/ Request
    \/ RequestDone
    \/ ProxySegmentHandler_Decrypt
    \/ ProxySegmentHandler_Fetch
    \/ RenderHandler_Decrypt
    \/ handlePlaylist

(***************************************************************************)
(* pkg/plugins/zee5: getVariantURL                                         *)
(***************************************************************************)
\* A playlist line is a sequence of lexemes: the literals the code searches
\* for ("#EXT-X-STREAM-INF", "BANDWIDTH=", ",", "#"-led tags) are lexemes, and
\* so is a decimal number.
INF == "#EXT-X-STREAM-INF"

BANDWIDTH == "BANDWIDTH="

\* The decimal numbers of the playlists, as written; Digits[n] reads as n.
Digits == <<"1", "2", "3", "4", "5", "6", "7", "8", "9">>

IsNumber(lexeme) == \E n \in 1..Len(Digits) : Digits[n] = lexeme

Atoi(lexeme) == CHOOSE n \in 1..Len(Digits) : Digits[n] = lexeme

\* The lexemes that begin with the character '#'.
HashLexemes ==
    {INF, "#EXTM3U", "#EXT-X-VERSION", "#EXTINF", "#EXT-X-MAP", "#EXT-X-MEDIA"}

\* strings.TrimSpace
RECURSIVE TrimSpace(_)
TrimSpace(line) ==
    IF line = <<>> THEN line
    ELSE IF Head(line) = " " THEN TrimSpace(Tail(line))
    ELSE IF line[Len(line)] = " " THEN TrimSpace(SubSeq(line, 1, Len(line) - 1))
    ELSE line

\* strings.Split(s, sep) for a one-lexeme separator.
RECURSIVE StrSplit(_, _)
StrSplit(s, sep) ==
    LET i == StrIndex(s, <<sep>>) IN
    IF i = 0 THEN <<s>>
    ELSE <<SubSeq(s, 1, i - 1)>> \o StrSplit(SubSeq(s, i + 1, Len(s)), sep)

\* fmt.Sscanf(p, "BANDWIDTH=%d", &currentBandwidth): the number read, or the
\* old value when the input does not match.
Sscanf_Bandwidth(p, old) ==
    IF Len(p) >= 2 /\ p[1] = BANDWIDTH /\ IsNumber(p[2]) THEN Atoi(p[2]) ELSE old

\* The first part of the split that starts with "BANDWIDTH=" is scanned.
RECURSIVE ScanParts(_, _)
ScanParts(parts, old) ==
    IF parts = <<>> THEN old
    ELSE IF StrHasPrefix(Head(parts), <<BANDWIDTH>>)
    THEN Sscanf_Bandwidth(Head(parts), old)
    ELSE ScanParts(Tail(parts), old)

\* baseURL.ResolveReference(relURL).String() for a relative reference.
BaseDir == "https://cdn/live/"

ResolveReference(rel) ==
    IF rel # <<>> /\ Head(rel) = "https://" THEN rel ELSE <<BaseDir>> \o rel

\* The scanner loop from line i on, with the variants recorded and the
\* bandwidth pending so far.
RECURSIVE getVariantURL_Scan(_, _, _, _)
getVariantURL_Scan(content, i, variants, currentBandwidth) ==
    IF i > Len(content) THEN variants
    ELSE LET trimmed == TrimSpace(content[i]) IN
         IF StrHasPrefix(trimmed, <<INF>>)
         THEN getVariantURL_Scan(content, i + 1, variants,
                  IF StrContains(trimmed, <<BANDWIDTH>>)
                  THEN ScanParts(StrSplit(trimmed, ","), currentBandwidth)
                  ELSE currentBandwidth)
         ELSE IF trimmed # <<>> /\ Head(trimmed) \in HashLexemes
         THEN getVariantURL_Scan(content, i + 1, variants, currentBandwidth)
         ELSE IF trimmed # <<>> /\ currentBandwidth > 0
         THEN getVariantURL_Scan(content, i + 1,
                  Append(variants, [Bandwidth |-> currentBandwidth,
                                    URL |-> ResolveReference(trimmed)]),
                  0)
         ELSE getVariantURL_Scan(content, i + 1, variants, currentBandwidth)

abs(x) == IF x < 0 THEN -x ELSE x

\* The loops over variants that compute maxBw and minBw.
RECURSIVE MaxBw(_, _, _)
MaxBw(variants, i, maxBw) ==
    IF i > Len(variants) THEN maxBw
    ELSE MaxBw(variants, i + 1,
               IF variants[i].Bandwidth > maxBw THEN variants[i].Bandwidth ELSE maxBw)

RECURSIVE MinBw(_, _, _)
MinBw(variants, i, minBw) ==
    IF i > Len(variants) THEN minBw
    ELSE MinBw(variants, i + 1,
               IF variants[i].Bandwidth < minBw THEN variants[i].Bandwidth ELSE minBw)

\* case "high": the loop that keeps the first variant above currentMax.
RECURSIVE SelectHigh(_, _, _, _)
SelectHigh(variants, i, currentMax, targetURL) ==
    IF i > Len(variants) THEN targetURL
    ELSE IF variants[i].Bandwidth > currentMax
    THEN SelectHigh(variants, i + 1, variants[i].Bandwidth, variants[i].URL)
    ELSE SelectHigh(variants, i + 1, currentMax, targetURL)

\* case "low"
RECURSIVE SelectLow(_, _, _, _)
SelectLow(variants, i, currentMin, targetURL) ==
    IF i > Len(variants) THEN targetURL
    ELSE IF variants[i].Bandwidth < currentMin
    THEN SelectLow(variants, i + 1, variants[i].Bandwidth, variants[i].URL)
    ELSE SelectLow(variants, i + 1, currentMin, targetURL)

\* case "medium": avg is the Go integer quotient (maxBw + minBw) / 2.
RECURSIVE SelectMedium(_, _, _, _, _)
SelectMedium(variants, i, avg, minDiff, targetURL) ==
    IF i > Len(variants) THEN targetURL
    ELSE LET diff == abs(variants[i].Bandwidth - avg) IN
         IF diff < minDiff
         THEN SelectMedium(variants, i + 1, avg, diff, variants[i].URL)
         ELSE SelectMedium(variants, i + 1, avg, minDiff, targetURL)

Qualities == {"high", "low", "medium", "auto"}

NoURL == <<>>

\* The switch on quality, for a non-empty variants.
getVariantURL_Switch(variants, quality) ==
    LET maxBw == MaxBw(variants, 1, variants[1].Bandwidth)
        minBw == MinBw(variants, 1, variants[1].Bandwidth)
    IN CASE quality = "high" ->
              [url |-> SelectHigh(variants, 1, variants[1].Bandwidth, variants[1].URL),
               err |-> ""]
         [] quality = "low" ->
              [url |-> SelectLow(variants, 1, variants[1].Bandwidth, variants[1].URL),
               err |-> ""]
         [] quality = "medium" ->
              LET avg == (maxBw + minBw) \div 2 IN
              [url |-> SelectMedium(variants, 1, avg,
                                    abs(variants[1].Bandwidth - avg), variants[1].URL),
               err |-> ""]
         [] OTHER -> [url |-> NoURL, err |-> "unknown quality"]

\* ---- the master playlists getVariantURL is tried on ----
\* A playlist is "#EXTM3U" followed by up to MaxEntries entries; entry k is a
\* stream-info tag in one of three shapes and what follows it: its URL line
\* (named after k), a comment and then the URL line, or nothing.
TagShapes == {"first", "later", "none"}

Follows == {"url", "comment", "missing"}

StreamInf(shape, bw) ==
    CASE shape = "first" -> <<INF, ":", BANDWIDTH, Digits[bw], ",", "RESOLUTION=640x360">>
      [] shape = "later" -> <<INF, ":", "RESOLUTION=640x360", ",", BANDWIDTH, Digits[bw]>>
      [] OTHER           -> <<INF, ":", "RESOLUTION=640x360">>

VariantLine(k) == <<"variant", Digits[k], ".m3u8">>

EntryLines(e, k) ==
    <<StreamInf(e.shape, e.bw)>> \o
    (CASE e.follow = "url"     -> <<VariantLine(k)>>
       [] e.follow = "comment" -> <<<<"#EXT-X-VERSION", ":", "3">>, <<>>, VariantLine(k)>>
       [] OTHER                -> <<>>)

Entries ==
    [shape : {"first", "later"}, bw : 1..MaxBandwidth, follow : Follows]
        \cup [shape : {"none"}, bw : {1}, follow : Follows]

RECURSIVE PlaylistLines(_, _)
PlaylistLines(es, k) ==
    IF k > Len(es) THEN <<>> ELSE EntryLines(es[k], k) \o PlaylistLines(es, k + 1)

\* The lists of at most n entries.
EntryLists(n) == UNION {[1..k -> Entries] : k \in 0..n}

\* The master playlists of at most n entries.
MasterPlaylists(n) == {<<<<"#EXTM3U">>>> \o PlaylistLines(es, 1) : es \in EntryLists(n)}

NoVariantResult == [url |-> NoURL, err |-> "none"]

VariantIdle ==
    /\ vrPc = "idle"
    /\ vrContent = <<>>
    /\ vrQuality = ""
    /\ vrVariants = <<>>
    /\ vrOut = NoVariantResult

\* A call of getVariantURL with its arguments.
VariantInit ==
    /\ vrPc = "call"
    /\ vrContent \in MasterPlaylists(MaxEntries)
    /\ vrQuality \in Qualities
    /\ vrVariants = <<>>
    /\ vrOut = NoVariantResult

\* The scan leaves variants empty: "no variants found".
getVariantURL_NoVariants ==
    /\ vrPc = "call"
    /\ getVariantURL_Scan(vrContent, 1, <<>>, 0) = <<>>
    /\ vrPc' = "done"
    /\ vrVariants' = <<>>
    /\ vrOut' = [url |-> NoURL, err |-> "no variants found"]
    /\ UNCHANGED <<vrContent, vrQuality>>
    /\ UNCHANGED notVariant

\* default: "unknown quality".
getVariantURL_UnknownQuality ==
    /\ vrPc = "call"
    /\ getVariantURL_Scan(vrContent, 1, <<>>, 0) # <<>>
    /\ vrQuality \notin {"high", "low", "medium"}
    /\ vrPc' = "done"
    /\ vrVariants' = getVariantURL_Scan(vrContent, 1, <<>>, 0)
    /\ vrOut' = getVariantURL_Switch(vrVariants', vrQuality)
    /\ UNCHANGED <<vrContent, vrQuality>>
    /\ UNCHANGED notVariant

\* One of the three known qualities: return targetURL, nil.
getVariantURL_Select ==
    /\ vrPc = "call"
    /\ getVariantURL_Scan(vrContent, 1, <<>>, 0) # <<>>
    /\ vrQuality \in {"high", "low", "medium"}
    /\ vrPc' = "done"
    /\ vrVariants' = getVariantURL_Scan(vrContent, 1, <<>>, 0)
    /\ vrOut' = getVariantURL_Switch(vrVariants', vrQuality)
    /\ UNCHANGED <<vrContent, vrQuality>>
    /\ UNCHANGED notVariant

VariantNext ==
    \/ getVariantURL_NoVariants
    \/ getVariantURL_UnknownQuality
    \/ getVariantURL_Select

(***************************************************************************)
(* pkg/plugins/zee5: handlePlaylist and transformURL                       *)
(***************************************************************************)
\* secureurl on a URL given as a string (a sequence of lexemes): the token
\* seals the URL under the fresh nonce, and DecryptURL opens it.
EncryptURLStr(absURL, nonce) == [nonce |-> nonce, sealed |-> absURL]

DecryptURLStr(token) == [ok |-> TRUE, url |-> token.sealed]

\* url.Parse rejects a reference with a malformed percent escape.
BadEscape == "%zz"

url_Parse_Fails(ref) == \E i \in 1..Len(ref) : ref[i] = BadEscape

\* relURL.Path: the reference without scheme, host and query.
url_Path(ref) ==
    LET q == StrIndex(ref, <<"?">>)
        noQuery == IF q = 0 THEN ref ELSE SubSeq(ref, 1, q - 1)
    IN IF noQuery # <<>> /\ Head(noQuery) = "https://"
       THEN SubSeq(noQuery, 3, Len(noQuery))
       ELSE noQuery

\* baseURL.ResolveReference(relURL).String() against the playlist's URL.
BaseFile == "index.m3u8"

ResolveAgainstBase(ref) ==
    IF ref # <<>> /\ Head(ref) = "?" THEN <<BaseDir, BaseFile>> \o ref
    ELSE ResolveReference(ref)

PlaylistEndpoint == "/zee5/render/playlist.m3u8"

SegmentEndpoint(segmentType) ==
    IF segmentType = "mp4" THEN "/zee5/render/segment.mp4" ELSE "/zee5/render/segment.ts"

Gateway(endpoint, token) == [kind |-> "gateway", endpoint |-> endpoint, auth |-> token]

PlainURL(u) == [kind |-> "url", url |-> u]

\* Variant of transformURL that seals the reference as written.
transformURL_SealsRelative(relURLStr, isMaster, nonce) ==
    IF url_Parse_Fails(relURLStr) THEN PlainURL(relURLStr)
    ELSE LET absURL == ResolveAgainstBase(relURLStr)
             coded_url == EncryptURLStr(relURLStr, nonce)
             path == IF url_Path(relURLStr) = <<>> THEN relURLStr ELSE url_Path(relURLStr)
             isM3U8 == StrContains(path, <<".m3u8">>)
             isSegment == StrContains(path, <<".ts">>) \/ StrContains(path, <<".mp4">>)
             segmentType == IF StrContains(path, <<".mp4">>) THEN "mp4" ELSE "ts"
         IN IF isM3U8 THEN Gateway(PlaylistEndpoint, coded_url)
            ELSE IF isSegment /\ ~isMaster THEN Gateway(SegmentEndpoint(segmentType), coded_url)
            ELSE PlainURL(absURL)

\* Variant of transformURL that forgets the master-playlist mode.
transformURL_IgnoresMaster(relURLStr, isMaster, nonce) ==
    IF url_Parse_Fails(relURLStr) THEN PlainURL(relURLStr)
    ELSE LET absURL == ResolveAgainstBase(relURLStr)
             coded_url == EncryptURLStr(absURL, nonce)
             path == IF url_Path(relURLStr) = <<>> THEN relURLStr ELSE url_Path(relURLStr)
             isM3U8 == StrContains(path, <<".m3u8">>)
             isSegment == StrContains(path, <<".ts">>) \/ StrContains(path, <<".mp4">>)
             segmentType == IF StrContains(path, <<".mp4">>) THEN "mp4" ELSE "ts"
         IN IF isM3U8 THEN Gateway(PlaylistEndpoint, coded_url)
            ELSE IF isSegment THEN Gateway(SegmentEndpoint(segmentType), coded_url)
            ELSE PlainURL(absURL)

\* transformURL(relURLStr, baseURL, isMaster, prefix); nonce is the nonce
\* EncryptURL draws.
transformURL(relURLStr, isMaster, nonce) ==
    IF url_Parse_Fails(relURLStr) THEN PlainURL(relURLStr)
    ELSE LET absURL == ResolveAgainstBase(relURLStr)
             coded_url == EncryptURLStr(absURL, nonce)
             path == IF url_Path(relURLStr) = <<>> THEN relURLStr ELSE url_Path(relURLStr)
             isM3U8 == StrContains(path, <<".m3u8">>)
             isSegment == StrContains(path, <<".ts">>) \/ StrContains(path, <<".mp4">>)
             segmentType == IF StrContains(path, <<".mp4">>) THEN "mp4" ELSE "ts"
         IN IF isM3U8 THEN Gateway(PlaylistEndpoint, coded_url)
            ELSE IF isSegment /\ ~isMaster THEN Gateway(SegmentEndpoint(segmentType), coded_url)
            ELSE PlainURL(absURL)

\* reMediaURI.FindStringSubmatch(trimmed)[1]: the text between URI=" and the
\* next quote, <<>> when there is no match.
URI_QUOTE == "URI=\""

MediaURI(trimmed) ==
    LET i == StrIndex(trimmed, <<URI_QUOTE>>) IN
    IF i = 0 THEN <<>>
    ELSE LET rest == SubSeq(trimmed, i + 1, Len(trimmed))
             j == StrIndex(rest, <<"\"">>)
         IN IF j <= 1 THEN <<>> ELSE SubSeq(rest, 1, j - 1)

\* What the loop appends to processedLines for line number i.
Raw(line) == [kind |-> "raw", line |-> line]

\* strings.Replace(line, originalURI, newURI, 1)
Replaced(line, originalURI, newURI) ==
    [kind |-> "replaced", line |-> line, old |-> originalURI, new |-> newURI]

Rewritten(ref) == [kind |-> "ref", ref |-> ref]

handlePlaylist_Line(line, isMaster, nonce) ==
    LET trimmed == TrimSpace(line) IN
    IF trimmed = <<>> THEN Raw(line)
    ELSE IF StrHasPrefix(trimmed, <<"#EXT-X-MAP">>) \/ StrHasPrefix(trimmed, <<"#EXT-X-MEDIA">>)
    THEN IF MediaURI(trimmed) # <<>>
         THEN Replaced(line, MediaURI(trimmed), transformURL(MediaURI(trimmed), isMaster, nonce))
         ELSE Raw(line)
    ELSE IF Head(trimmed) \in HashLexemes THEN Raw(line)
    ELSE Rewritten(transformURL(trimmed, isMaster, nonce))

\* The scanner loop; the call for line i draws nonce i.
handlePlaylist_Loop(content, isMaster) ==
    [i \in 1..Len(content) |-> handlePlaylist_Line(content[i], isMaster, i)]

\* ---- the playlists handlePlaylist is tried on ----
References ==
    {<<"seg1", ".ts">>, <<"seg1", ".mp4">>, <<"chunks", ".m3u8">>, <<"audio", ".aac">>,
     <<"https://", "cdn2/", "seg9", ".ts">>, <<"key", "?", "next=", "a", ".m3u8">>,
     <<"?", "part=", "2", ".ts">>, <<"seg", BadEscape, ".ts">>, <<"seg2", ".ts", " ">>}

TagLines ==
    {<<"#EXTINF", ":", "4">>,
     <<"#EXT-X-MAP", ":", URI_QUOTE, "init", ".mp4", "\"">>,
     <<"#EXT-X-MEDIA", ":", "TYPE=AUDIO", ",", URI_QUOTE, "audio", ".m3u8", "\"">>,
     <<"#EXT-X-MEDIA", ":", "TYPE=CLOSED-CAPTIONS">>}

PlaylistLineSet == References \cup TagLines \cup {<<>>}

\* The playlists of at most n lines.
Playlists(n) == UNION {[1..k -> PlaylistLineSet] : k \in 0..n}

PlaylistIdle ==
    /\ plPc = "idle"
    /\ plTarget = ""
    /\ plMaster = FALSE
    /\ plContent = <<>>
    /\ plOut = <<>>
    /\ plStatus = "none"

\* A call of handlePlaylist: its arguments and the body upstream will serve.
PlaylistInit ==
    /\ plPc = "call"
    /\ plTarget \in {"", "https://cdn/live/index.m3u8"}
    /\ plMaster \in BOOLEAN
    /\ plContent \in Playlists(MaxLines)
    /\ plOut = <<>>
    /\ plStatus = "none"

\* targetURLStr == "": 400 "missing url param".
handlePlaylist_MissingURL ==
    /\ plPc = "call"
    /\ plTarget = ""
    /\ plPc' = "done"
    /\ plStatus' = "400 missing url param"
    /\ UNCHANGED <<plTarget, plMaster, plContent, plOut>>
    /\ UNCHANGED notPlaylist

\* fetchContent fails: 400 "failed to fetch".
handlePlaylist_FetchFailed ==
    /\ plPc = "call"
    /\ plTarget # ""
    /\ plPc' = "done"
    /\ plStatus' = "400 failed to fetch"
    /\ UNCHANGED <<plTarget, plMaster, plContent, plOut>>
    /\ UNCHANGED notPlaylist

\* The body arrives: every line is processed and the result is sent.
handlePlaylist_Send ==
    /\ plPc = "call"
    /\ plTarget # ""
    /\ plPc' = "done"
    /\ plOut' = handlePlaylist_Loop(plContent, plMaster)
    /\ plStatus' = "200"
    /\ UNCHANGED <<plTarget, plMaster, plContent>>
    /\ UNCHANGED notPlaylist

PlaylistNext ==
    \/ handlePlaylist_MissingURL
    \/ handlePlaylist_FetchFailed
    \/ handlePlaylist_Send

(***************************************************************************)
(* pkg/television: ReplaceTS, ReplaceAAC and ReplaceKey                    *)
(***************************************************************************)
\* CreateEncryptedURL(config): the endpoint with the config sealed in its
\* auth token; it always succeeds.
CreateEncryptedURL(config) ==
    [err |-> FALSE,
     result |-> [kind |-> "gateway", endpoint |-> config.EndpointURL,
                 auth |-> [sealed |-> config]]]

Nil == [kind |-> "nil"]

\* The loop over strings.Split(params, "&") that takes the value of the
\* first part starting with "hdnea=".
RECURSIVE FirstHdneaPart(_)
FirstHdneaPart(parts) ==
    IF parts = <<>> THEN <<>>
    ELSE IF StrHasPrefix(Head(parts), HDNEA)
    THEN SubSeq(Head(parts), Len(HDNEA) + 1, Len(Head(parts)))
    ELSE FirstHdneaPart(Tail(parts))

HdneaOfParams(params) ==
    IF StrContains(params, HDNEA) THEN FirstHdneaPart(StrSplit(params, "&")) ELSE <<>>

EncryptedOrNil(config) ==
    IF CreateEncryptedURL(config).err THEN Nil ELSE CreateEncryptedURL(config).result

ReplaceTS(disableTSHandler, baseUrl, match, params) ==
    IF disableTSHandler THEN PlainURL(baseUrl \o match \o <<"?">> \o params)
    ELSE EncryptedOrNil([BaseURL |-> baseUrl, Match |-> match, Params |-> params,
                         ChannelID |-> "", EndpointURL |-> "/render.ts",
                         Hdnea |-> HdneaOfParams(params)])

\* Variant of ReplaceAAC that does not look at the switch.
ReplaceAAC_IgnoresSwitch(disableTSHandler, baseUrl, match, params) ==
    EncryptedOrNil([BaseURL |-> baseUrl, Match |-> match, Params |-> params,
                    ChannelID |-> "", EndpointURL |-> "/render.ts",
                    Hdnea |-> HdneaOfParams(params)])

ReplaceAAC(disableTSHandler, baseUrl, match, params) ==
    IF disableTSHandler THEN PlainURL(baseUrl \o match \o <<"?">> \o params)
    ELSE EncryptedOrNil([BaseURL |-> baseUrl, Match |-> match, Params |-> params,
                         ChannelID |-> "", EndpointURL |-> "/render.ts",
                         Hdnea |-> HdneaOfParams(params)])

\* ReplaceKey does not read config.Cfg.DisableTSHandler.
ReplaceKey(match, params, channel_id) ==
    EncryptedOrNil([BaseURL |-> <<>>, Match |-> match, Params |-> params,
                    ChannelID |-> channel_id, EndpointURL |-> "/render.key",
                    Hdnea |-> HdneaOfParams(params)])

\* ---- the arguments the rewrites are tried on ----
ReplaceFns == {"ReplaceTS", "ReplaceAAC", "ReplaceKey"}

Matches == {<<"s", "1", ".", "t", "s">>, <<"a", "1", ".", "a", "a", "c">>,
            <<"k", ".", "k", "e", "y">>}

ParamStrings ==
    {<<>>, HDNEA \o <<"A">>, <<"x", "=", "1", "&">> \o HDNEA \o <<"A">>,
     <<"x", "=", "1">>}

ChannelIDs == {"143", "cc_1"}

NoArgs == [baseUrl |-> <<>>, match |-> <<>>, params |-> <<>>, channel_id |-> ""]

ReplaceIdle ==
    /\ rpPc = "idle"
    /\ rpFn = "none"
    /\ rpDisable = FALSE
    /\ rpArgs = NoArgs
    /\ rpOut = Nil

\* A call of one of the three rewrites under a setting of the switch.
ReplaceInit ==
    /\ rpPc = "call"
    /\ rpFn \in ReplaceFns
    /\ rpDisable \in BOOLEAN
    /\ rpArgs \in [baseUrl : {<<"h", ":", "/", "/", "c", "/">>}, match : Matches,
                   params : ParamStrings, channel_id : ChannelIDs]
    /\ rpOut = Nil

ReplaceTS_Call ==
    /\ rpPc = "call"
    /\ rpFn = "ReplaceTS"
    /\ rpPc' = "done"
    /\ rpOut' = ReplaceTS(rpDisable, rpArgs.baseUrl, rpArgs.match, rpArgs.params)
    /\ UNCHANGED <<rpFn, rpDisable, rpArgs>>
    /\ UNCHANGED notReplace

ReplaceAAC_Call ==
    /\ rpPc = "call"
    /\ rpFn = "ReplaceAAC"
    /\ rpPc' = "done"
    /\ rpOut' = ReplaceAAC(rpDisable, rpArgs.baseUrl, rpArgs.match, rpArgs.params)
    /\ UNCHANGED <<rpFn, rpDisable, rpArgs>>
    /\ UNCHANGED notReplace

ReplaceKey_Call ==
    /\ rpPc = "call"
    /\ rpFn = "ReplaceKey"
    /\ rpPc' = "done"
    /\ rpOut' = ReplaceKey(rpArgs.match, rpArgs.params, rpArgs.channel_id)
    /\ UNCHANGED <<rpFn, rpDisable, rpArgs>>
    /\ UNCHANGED notReplace

ReplaceNext ==
    \/ ReplaceTS_Call
    \/ ReplaceAAC_Call
    \/ ReplaceKey_Call

(***************************************************************************)
(* pkg/television: LoadCustomChannels on its own                           *)
(***************************************************************************)
\* The ids a custom-channel file is written with.
FileIDs ==
    {<<"1">>, <<"c", "c", "_", "2">>, <<"c", "c", "_", "1">>, <<"c", "c">>,
     <<"C", "C", "_", "1">>, <<>>}

\* The channel lists of the files: up to MaxFileChannels entries.
FileConfigs ==
    UNION {[1..n -> {Entry(id, "a") : id \in FileIDs}] : n \in 0..MaxFileChannels}

LoadFileStates ==
    {[kind |-> "missing"], [kind |-> "unreadable"], [kind |-> "malformed"]}
        \cup {[kind |-> "config", channels |-> c] : c \in FileConfigs}

LoadIdle ==
    /\ ldPc = "idle"
    /\ ldPath = "empty"
    /\ ldDisk = [kind |-> "missing"]
    /\ ldChannels = <<>>
    /\ ldErr = FALSE

\* A call LoadCustomChannels(filePath) with the file in some state.
LoadInit ==
    /\ ldPc = "call"
    /\ ldPath \in PathKinds
    /\ ldDisk \in LoadFileStates
    /\ ldChannels = <<>>
    /\ ldErr = FALSE

LoadCustomChannels_Return ==
    /\ ldPc' = "done"
    /\ ldChannels' = LoadCustomChannels(ldPath, ldDisk).channels
    /\ ldErr' = LoadCustomChannels(ldPath, ldDisk).err
    /\ UNCHANGED <<ldPath, ldDisk>>
    /\ UNCHANGED notLoad

\* if filePath == "" { return []Channel{}, nil }
LoadCustomChannels_EmptyPath ==
    /\ ldPc = "call"
    /\ ldPath = "empty"
    /\ LoadCustomChannels_Return

\* if !fileResult.Exists { ... }
LoadCustomChannels_NotFound ==
    /\ ldPc = "call"
    /\ ldPath # "empty"
    /\ ldDisk.kind = "missing"
    /\ LoadCustomChannels_Return

\* fileResult.Error != nil, or detectAndParseFormat fails.
LoadCustomChannels_Failed ==
    /\ ldPc = "call"
    /\ ldPath # "empty"
    /\ ldDisk.kind \in {"unreadable", "malformed"}
    /\ LoadCustomChannels_Return

\* The file was read and parsed.
LoadCustomChannels_Loaded ==
    /\ ldPc = "call"
    /\ ldPath # "empty"
    /\ ldDisk.kind = "config"
    /\ LoadCustomChannels_Return

LoadNext ==
    \/ LoadCustomChannels_EmptyPath
    \/ LoadCustomChannels_NotFound
    \/ LoadCustomChannels_Failed
    \/ LoadCustomChannels_Loaded

(***************************************************************************)
(* pkg/television: FilterChannelsByDefaults                                *)
(***************************************************************************)
\* categorySet / languageSet: the keys put into the map.
SetOf(list) == {list[i] : i \in 1..Len(list)}

\* The loop over channels, appending those that match both criteria.
RECURSIVE FilterChannelsByDefaults_Loop(_, _, _, _, _)
FilterChannelsByDefaults_Loop(channels, categories, languages, i, filteredChannels) ==
    IF i > Len(channels) THEN filteredChannels
    ELSE LET channel == channels[i]
             categoryMatch == IF Len(categories) = 0 THEN TRUE
                              ELSE channel.Category \in SetOf(categories)
             languageMatch == IF Len(languages) = 0 THEN TRUE
                              ELSE channel.Language \in SetOf(languages)
         IN FilterChannelsByDefaults_Loop(channels, categories, languages, i + 1,
                IF categoryMatch /\ languageMatch
                THEN Append(filteredChannels, channel)
                ELSE filteredChannels)

\* Variant that lets a channel through when either criterion matches.
FilterChannelsByDefaults_Either(channels, categories, languages) ==
    IF Len(categories) = 0 /\ Len(languages) = 0 THEN channels
    ELSE SelectSeq(channels,
             LAMBDA channel : \/ channel.Category \in SetOf(categories)
                              \/ channel.Language \in SetOf(languages))

FilterChannelsByDefaults(channels, categories, languages) ==
    IF Len(categories) = 0 /\ Len(languages) = 0 THEN channels
    ELSE FilterChannelsByDefaults_Loop(channels, categories, languages, 1, <<>>)

\* ---- the catalogs and default lists it is tried on ----
FilterLanguages == {"1", "6", "9"}

FilterCategories == {"5", "8"}

FilterChannel(name, language, category) ==
    [Name |-> name, Language |-> language, Category |-> category]

\* The catalog of five channels, languages 1, 1, 6, 6, 9 and categories
\* 5, 5, 5, 8, 8.
FiveChannels ==
    <<FilterChannel("a", "1", "5"), FilterChannel("b", "1", "5"),
      FilterChannel("c", "6", "5"), FilterChannel("d", "6", "8"),
      FilterChannel("e", "9", "8")>>

SeqsUpTo(S, n) == UNION {[1..k -> S] : k \in 0..n}

FilterCatalogs ==
    {FiveChannels} \cup
    SeqsUpTo({FilterChannel("x", l, c) : l \in FilterLanguages, c \in FilterCategories},
             MaxFilterChannels)

FilterIdle ==
    /\ flPc = "idle"
    /\ flChannels = <<>>
    /\ flCategories = <<>>
    /\ flLanguages = <<>>
    /\ flOut = <<>>

\* A call FilterChannelsByDefaults(channels, categories, languages).
FilterInit ==
    /\ flPc = "call"
    /\ flChannels \in FilterCatalogs
    /\ flCategories \in SeqsUpTo(FilterCategories, MaxDefaults)
    /\ flLanguages \in SeqsUpTo(FilterLanguages \ {"1"}, MaxDefaults)
    /\ flOut = <<>>

\* if len(categories) == 0 && len(languages) == 0 { return channels }
FilterChannelsByDefaults_ReturnAll ==
    /\ flPc = "call"
    /\ Len(flCategories) = 0 /\ Len(flLanguages) = 0
    /\ flPc' = "done"
    /\ flOut' = FilterChannelsByDefaults(flChannels, flCategories, flLanguages)
    /\ UNCHANGED <<flChannels, flCategories, flLanguages>>
    /\ UNCHANGED notFilter

FilterChannelsByDefaults_Filter ==
    /\ flPc = "call"
    /\ ~(Len(flCategories) = 0 /\ Len(flLanguages) = 0)
    /\ flPc' = "done"
    /\ flOut' = FilterChannelsByDefaults(flChannels, flCategories, flLanguages)
    /\ UNCHANGED <<flChannels, flCategories, flLanguages>>
    /\ UNCHANGED notFilter

FilterNext ==
    \/ FilterChannelsByDefaults_ReturnAll
    \/ FilterChannelsByDefaults_Filter

(***************************************************************************)
(* The scheduler and the initialization paths that register tasks          *)
(***************************************************************************)
\* tasks.EPGTaskID
EPG_TASK_ID == "EPGTaskID"

\* Variant in which each call of epg.Init registers under an id of its own.
epg_Init_Add_OwnID(caller) == [id |-> caller, fn |-> "genepg"]

\* go scheduler.Add(EPG_TASK_ID, time.Until(schedule_time), genepg)
epg_Init_Add(caller) == [id |-> EPG_TASK_ID, fn |-> "genepg"]

\* scheduler.Add("external-epg-refresh", 12*time.Hour, ...)
ExternalEPGRefresh == [id |-> "external-epg-refresh", fn |-> "DownloadExternalEPG"]

\* scheduler.Add("custom-channels-refresh", 6*time.Hour, RefreshCustomChannelsFromM3U)
CustomChannelsRefresh ==
    [id |-> "custom-channels-refresh", fn |-> "RefreshCustomChannelsFromM3U"]

\* The goroutines that call scheduler.Add: two runs of epg.Init and
\* JioTVServer itself.
InitPaths == {"init1", "init2"}

Adders == InitPaths \cup {"JioTVServer"}

\* The ids tasks are registered under.
TaskIDs ==
    {EPG_TASK_ID} \cup {epg_Init_Add(p).id : p \in InitPaths}
        \cup {ExternalEPGRefresh.id, CustomChannelsRefresh.id}

WorkFns == {"genepg", ExternalEPGRefresh.fn, CustomChannelsRefresh.fn}

\* The Add calls of JioTVServer, with and without an external EPG URL.
JioTVServer_Adds ==
    {<<ExternalEPGRefresh, CustomChannelsRefresh>>, <<CustomChannelsRefresh>>}

SchedulerIdle ==
    /\ schTasks = EmptyMap
    /\ schTimers = {}
    /\ schMu = "none"
    /\ schStopped = FALSE
    /\ schRuns = [f \in WorkFns |-> 0]
    /\ schFired = [i \in TaskIDs |-> 0]
    /\ adPc = [p \in Adders |-> "idle"]
    /\ adQueue = [p \in Adders |-> <<>>]
    /\ adReturned = {}

\* scheduler.Init() has run; every initialization path is about to call Add.
SchedulerInit ==
    /\ schTasks = EmptyMap
    /\ schTimers = {}
    /\ schMu = "none"
    /\ schStopped = FALSE
    /\ schRuns = [f \in WorkFns |-> 0]
    /\ schFired = [i \in TaskIDs |-> 0]
    /\ adPc = [p \in Adders |-> "call"]
    /\ \E q \in JioTVServer_Adds :
         adQueue = [p \in Adders |-> IF p \in InitPaths THEN <<epg_Init_Add(p)>> ELSE q]
    /\ adReturned = {}

\* Add takes the mutex of the task map.
Add_Lock(p) ==
    /\ ~schStopped
    /\ adPc[p] = "call"
    /\ adQueue[p] # <<>>
    /\ schMu = "none"
    /\ schMu' = p
    /\ adPc' = [adPc EXCEPT ![p] = "check"]
    /\ UNCHANGED <<schTasks, schTimers, schStopped, schRuns, schFired, adQueue, adReturned>>
    /\ UNCHANGED notScheduler

\* The id already has a pending instance: Add does nothing.
Add_AlreadyPending(p) ==
    /\ adPc[p] = "check"
    /\ Head(adQueue[p]).id \in DOMAIN schTasks
    /\ schMu' = "none"
    /\ adQueue' = [adQueue EXCEPT ![p] = Tail(@)]
    /\ adReturned' = adReturned \cup {Head(adQueue[p]).id}
    /\ adPc' = [adPc EXCEPT ![p] = IF Tail(adQueue[p]) = <<>> THEN "done" ELSE "call"]
    /\ UNCHANGED <<schTasks, schTimers, schStopped, schRuns, schFired>>
    /\ UNCHANGED notScheduler

\* Otherwise Add arms a timer and records it under the id.
Add_Arm(p) ==
    /\ adPc[p] = "check"
    /\ Head(adQueue[p]).id \notin DOMAIN schTasks
    /\ LET task == Head(adQueue[p])
           timer == [id |-> task.id, fn |-> task.fn, by |-> p]
       IN /\ schTimers' = schTimers \cup {timer}
          /\ schTasks' = MapPut(schTasks, task.id, timer)
          /\ adReturned' = adReturned \cup {task.id}
    /\ schMu' = "none"
    /\ adQueue' = [adQueue EXCEPT ![p] = Tail(@)]
    /\ adPc' = [adPc EXCEPT ![p] = IF Tail(adQueue[p]) = <<>> THEN "done" ELSE "call"]
    /\ UNCHANGED <<schStopped, schRuns, schFired>>
    /\ UNCHANGED notScheduler

\* A timer fires: its work function runs once; a one-shot task is destroyed,
\* a recurring one stays armed.
Timer_Fire(t, recurring) ==
    /\ ~schStopped
    /\ t \in schTimers
    /\ schMu = "none"
    /\ schFired[t.id] < MaxFirings
    /\ schFired' = [schFired EXCEPT ![t.id] = @ + 1]
    /\ schRuns' = [schRuns EXCEPT ![t.fn] = @ + 1]
    /\ IF recurring
       THEN UNCHANGED <<schTimers, schTasks>>
       ELSE /\ schTimers' = schTimers \ {t}
            /\ schTasks' = [i \in (DOMAIN schTasks) \ {t.id} |-> schTasks[i]]
    /\ UNCHANGED <<schMu, schStopped, adPc, adQueue, adReturned>>
    /\ UNCHANGED notScheduler

Timer_FireOneShot == \E t \in schTimers : Timer_Fire(t, FALSE)

Timer_FireRecurring == \E t \in schTimers : Timer_Fire(t, TRUE)

\* defer scheduler.Stop(): every pending timer is cancelled.
Scheduler_Stop ==
    /\ ~schStopped
    /\ schMu = "none"
    /\ adPc["JioTVServer"] = "done"
    /\ schStopped' = TRUE
    /\ schTimers' = {}
    /\ schTasks' = EmptyMap
    /\ UNCHANGED <<schMu, schRuns, schFired, adPc, adQueue, adReturned>>
    /\ UNCHANGED notScheduler

SchedulerNext ==
    \/ \E p \in Adders : Add_Lock(p)
    \/ \E p \in Adders : Add_AlreadyPending(p)
    \/ \E p \in Adders : Add_Arm(p)
    \/ Timer_FireOneShot
    \/ Timer_FireRecurring
    \/ Scheduler_Stop

(***************************************************************************)
(* pkg/epg: the worker pool of genXML                                      *)
(***************************************************************************)
\* for offset := 0; offset < 2; offset++
OffsetLimit == 2

\* What one request for an offset can come to: client.Do fails, the status
\* is 404, the status is another one than 200, responseBody fails,
\* json.Unmarshal fails, or the programmes are decoded.
Outcomes == {"transport", "notfound", "badstatus", "bodyerr", "undecodable", "ok"}

\* The variant in which a 404 is skipped like any other failure.
AfterResponse_NoBreak(outcome) ==
    IF outcome = "ok" THEN "append" ELSE "continue"

\* What the loop body does with the outcome of a request.
AfterResponse(outcome) ==
    CASE outcome = "notfound" -> "break"
      [] outcome = "ok"       -> "append"
      [] OTHER                -> "continue"

\* The variant with a queue of one slot.
QueueCapacity_One(channels) == 1

\* channelQueue := make(chan Channel, len(channels))
QueueCapacity(channels) == Len(channels)

\* The variant in which wg.Wait() returns at once.
WaitReturns_AtOnce(wg) == TRUE

\* wg.Wait() returns when the counter is zero.
WaitReturns(wg) == wg = 0

\* A worker that holds no channel: waiting on the queue, or past its loop.
\* The goroutines of the pool are anonymous, so the pool is a bag of them.
Worker(pc) == [pc |-> pc, ch |-> 0, offset |-> 0, last |-> "none"]

\* The pool with one worker gone from one position to another.
Moved(pool, from, to) == (pool (-) SetToBag({from})) (+) SetToBag({to})

PoolIdle ==
    /\ pwPc = "idle"
    /\ pwChannels = <<>>
    /\ pwSpawned = 0
    /\ pwQueue = <<>>
    /\ pwClosed = FALSE
    /\ pwNext = 1
    /\ pwWg = 0
    /\ pwWorkers = EmptyBag
    /\ pwProgrammes = {}
    /\ pwBar = 0
    /\ pwHanded = <<>>

\* genXML has fetched and decoded the channel list: between none and
\* MaxChannels channels, numbered as the list numbers them.
PoolInit ==
    /\ pwPc = "spawn"
    /\ \E n \in 0..MaxChannels :
         /\ pwChannels = [i \in 1..n |-> i]
         /\ pwHanded = [i \in 1..n |-> 0]
    /\ pwSpawned = 0
    /\ pwQueue = <<>>
    /\ pwClosed = FALSE
    /\ pwNext = 1
    /\ pwWg = 0
    /\ pwWorkers = EmptyBag
    /\ pwProgrammes = {}
    /\ pwBar = 0

\* for i := 0; i < numWorkers; i++ { wg.Add(1); go func() {...}() }
genXML_SpawnWorker ==
    /\ pwPc = "spawn"
    /\ IF pwSpawned < numWorkers
       THEN /\ pwSpawned' = pwSpawned + 1
            /\ pwWg' = pwWg + 1
            /\ pwWorkers' = pwWorkers (+) SetToBag({Worker("recv")})
            /\ UNCHANGED pwPc
       ELSE /\ pwPc' = "queue"
            /\ UNCHANGED <<pwSpawned, pwWg, pwWorkers>>
    /\ UNCHANGED <<pwChannels, pwQueue, pwClosed, pwNext, pwProgrammes, pwBar,
                   pwHanded>>
    /\ UNCHANGED notPool

\* for _, channel := range channels { channelQueue <- channel }: a send
\* blocks while the buffer is full.
genXML_QueueChannel ==
    /\ pwPc = "queue"
    /\ IF pwNext <= Len(pwChannels)
       THEN /\ Len(pwQueue) < QueueCapacity(pwChannels)
            /\ pwQueue' = Append(pwQueue, pwChannels[pwNext])
            /\ pwNext' = pwNext + 1
            /\ UNCHANGED pwPc
       ELSE /\ pwPc' = "close"
            /\ UNCHANGED <<pwQueue, pwNext>>
    /\ UNCHANGED <<pwChannels, pwSpawned, pwClosed, pwWg, pwWorkers, pwProgrammes,
                   pwBar, pwHanded>>
    /\ UNCHANGED notPool

\* close(channelQueue)
genXML_CloseQueue ==
    /\ pwPc = "close"
    /\ pwClosed' = TRUE
    /\ pwPc' = "wait"
    /\ UNCHANGED <<pwChannels, pwSpawned, pwQueue, pwNext, pwWg, pwWorkers,
                   pwProgrammes, pwBar, pwHanded>>
    /\ UNCHANGED notPool

\* wg.Wait()
genXML_WaitWorkers ==
    /\ pwPc = "wait"
    /\ WaitReturns(pwWg)
    /\ pwPc' = "marshal"
    /\ UNCHANGED <<pwChannels, pwSpawned, pwQueue, pwClosed, pwNext, pwWg, pwWorkers,
                   pwProgrammes, pwBar, pwHanded>>
    /\ UNCHANGED notPool

\* xml.Marshal(epg) and the return.
genXML_MarshalEPG ==
    /\ pwPc = "marshal"
    /\ pwPc' = "done"
    /\ UNCHANGED <<pwChannels, pwSpawned, pwQueue, pwClosed, pwNext, pwWg, pwWorkers,
                   pwProgrammes, pwBar, pwHanded>>
    /\ UNCHANGED notPool

\* for channel := range channelQueue: a worker receives the next channel.
Worker_Receive ==
  \E w \in BagToSet(pwWorkers) :
    /\ w.pc = "recv"
    /\ pwQueue # <<>>
    /\ pwWorkers' = Moved(pwWorkers, w, [pc |-> "request", ch |-> Head(pwQueue),
                                         offset |-> 0, last |-> "none"])
    /\ pwQueue' = Tail(pwQueue)
    /\ pwHanded' = [pwHanded EXCEPT ![Head(pwQueue)] = @ + 1]
    /\ UNCHANGED <<pwPc, pwChannels, pwSpawned, pwClosed, pwNext, pwWg, pwProgrammes,
                   pwBar>>
    /\ UNCHANGED notPool

\* The range loop ends on the closed and drained queue: defer wg.Done().
Worker_Exit ==
  \E w \in BagToSet(pwWorkers) :
    /\ w.pc = "recv"
    /\ pwQueue = <<>>
    /\ pwClosed
    /\ pwWorkers' = Moved(pwWorkers, w, Worker("exited"))
    /\ pwWg' = pwWg - 1
    /\ UNCHANGED <<pwPc, pwChannels, pwSpawned, pwQueue, pwClosed, pwNext,
                   pwProgrammes, pwBar, pwHanded>>
    /\ UNCHANGED notPool

\* What a worker remembers of its last response: the failures that the
\* loop passes over are remembered alike.
LastResponse(outcome) ==
    IF outcome \in {"notfound", "ok"} THEN outcome ELSE "skipped"

\* fetchEPG: one turn of the offset loop: the request, what the response
\* makes of the turn, the programmes appended under programmesMu when the
\* body was decoded, and offset++.
fetchEPG_Request ==
  \E w \in BagToSet(pwWorkers) :
    /\ w.pc = "request"
    /\ \E outcome \in Outcomes :
         /\ pwProgrammes' =
              IF AfterResponse(outcome) = "append"
              THEN pwProgrammes \cup {[ch |-> w.ch, offset |-> w.offset]}
              ELSE pwProgrammes
         /\ pwWorkers' =
              IF AfterResponse(outcome) = "break" \/ ~(w.offset + 1 < OffsetLimit)
              THEN Moved(pwWorkers, w, [w EXCEPT !.pc = "bar",
                                                 !.last = LastResponse(outcome)])
              ELSE Moved(pwWorkers, w, [w EXCEPT !.offset = w.offset + 1,
                                                 !.last = LastResponse(outcome)])
    /\ UNCHANGED <<pwPc, pwChannels, pwSpawned, pwQueue, pwClosed, pwNext, pwWg,
                   pwBar, pwHanded>>
    /\ UNCHANGED notPool

\* bar.Add(1) and the return of fetchEPG.
fetchEPG_BarAdd ==
  \E w \in BagToSet(pwWorkers) :
    /\ w.pc = "bar"
    /\ pwBar' = pwBar + 1
    /\ pwWorkers' = Moved(pwWorkers, w, Worker("recv"))
    /\ UNCHANGED <<pwPc, pwChannels, pwSpawned, pwQueue, pwClosed, pwNext, pwWg,
                   pwProgrammes, pwHanded>>
    /\ UNCHANGED notPool

PoolWorkers ==
    \/ Worker_Receive
    \/ Worker_Exit
    \/ fetchEPG_Request
    \/ fetchEPG_BarAdd

PoolNext ==
    \/ genXML_SpawnWorker
    \/ genXML_QueueChannel
    \/ genXML_CloseQueue
    \/ genXML_WaitWorkers
    \/ genXML_MarshalEPG
    \/ PoolWorkers

(***************************************************************************)
(* internal/config: JioTVConfig.Load and the path of the custom channels   *)
(* file.  A path is the sequence of its components, a component the        *)
(* sequence of its lexemes; an absolute path starts with Root.  The        *)
(* separator is the slash, so that filepath.ToSlash and FromSlash change   *)
(* nothing, and the configured values carry no surrounding white space.    *)
(***************************************************************************)
Root == <<"/">>

CONFIGS == <<"configs">>

APP == <<"app">>

DOT == <<".">>

\* The lexemes of "custom_channels" and of "custom-channels".
Underscored == <<"custom", "_", "channels">>

Hyphened == <<"custom", "-", "channels">>

\* File names: custom_channels.json, custom-channels.json, jiotv_go.toml.
CustomUnderscore == Underscored \o <<".json">>

CustomHyphen == Hyphened \o <<".json">>

ConfigToml == <<"jiotv_go", ".toml">>

NoPath == <<>>

\* filepath.IsAbs
IsAbs(p) == p # <<>> /\ Head(p) = Root

\* filepath.Base, on a path with at least one component.
Base(p) == p[Len(p)]

\* filepath.Dir: "." for a path of one component.
Dir(p) == IF Len(p) <= 1 THEN <<DOT>> ELSE SubSeq(p, 1, Len(p) - 1)

\* filepath.Clean: the components "." are dropped; "." is what is left
\* of a path that holds nothing else.
RECURSIVE DropDots(_)
DropDots(p) ==
    IF p = <<>> THEN <<>>
    ELSE IF Head(p) = DOT THEN DropDots(Tail(p))
    ELSE <<Head(p)>> \o DropDots(Tail(p))

Clean(p) == IF DropDots(p) = <<>> THEN <<DOT>> ELSE DropDots(p)

\* filepath.Join: the non-empty elements joined, and the result cleaned.
Join(dir, rel) == Clean(dir \o rel)

\* strings.ReplaceAll(base, "custom_channels", "custom-channels")
RECURSIVE ReplaceAll(_, _, _)
ReplaceAll(s, old, new) ==
    IF Len(s) < Len(old) THEN s
    ELSE IF SubSeq(s, 1, Len(old)) = old
         THEN new \o ReplaceAll(SubSeq(s, Len(old) + 1, Len(s)), old, new)
         ELSE <<Head(s)>> \o ReplaceAll(Tail(s), old, new)

\* fileExists: os.Stat resolves a relative path against the working
\* directory.
fileExists(disk, cwd, p) ==
    (IF IsAbs(p) THEN Clean(p) ELSE Join(cwd, p)) \in disk

\* strings.HasPrefix(rawSlash, "configs/") && filepath.Base(configDir) == "configs"
ConfigsPrefixRedundant(raw, configDir) ==
    /\ Len(raw) >= 2
    /\ Head(raw) = CONFIGS
    /\ Base(configDir) = CONFIGS

\* altBase := strings.ReplaceAll(filepath.Base(raw), ...): the base name alone.
altBase(raw) == <<ReplaceAll(Base(raw), Underscored, Hyphened)>>

\* normalizePaths: relCandidates, in the order they are tried.  altBase is a
\* base name, so that stripping "configs/" from it changes nothing.
relCandidates(raw, configDir) ==
    <<raw>>
    \o (IF ConfigsPrefixRedundant(raw, configDir) THEN <<Tail(raw)>> ELSE <<>>)
    \o (IF altBase(raw) # <<Base(raw)>>
        THEN <<altBase(raw)>>
             \o (IF ConfigsPrefixRedundant(raw, configDir)
                 THEN <<altBase(raw)>> ELSE <<>>)
        ELSE <<>>)

\* The loop over relCandidates: the first candidate that exists under the
\* directory of the config file, or the value as it was.
RECURSIVE FirstExisting(_, _, _, _, _)
FirstExisting(cands, configDir, disk, cwd, unchanged) ==
    IF cands = <<>> THEN unchanged
    ELSE LET rel == Clean(Head(cands))
             candidate == Join(configDir, rel)
         IN IF rel # <<DOT>> /\ fileExists(disk, cwd, candidate)
            THEN candidate
            ELSE FirstExisting(Tail(cands), configDir, disk, cwd, unchanged)

\* JioTVConfig.normalizePaths: the value of CustomChannelsFile it leaves.
normalizePaths(raw, configFilePath, disk, cwd) ==
    IF raw = <<>> THEN raw
    ELSE IF IsAbs(raw) THEN raw
    ELSE IF fileExists(disk, cwd, raw) THEN raw
    ELSE FirstExisting(relCandidates(raw, Dir(configFilePath)),
                       Dir(configFilePath), disk, cwd, raw)

\* JioTVConfig.applyDefaults, for CustomChannelsFile.
applyDefaults(value) ==
    IF value = <<>> THEN <<CONFIGS, CustomHyphen>> ELSE value

\* The config files Load is called with, the working directories, the
\* values of custom_channels_file and the files that may exist.
ConfigPaths == {<<Root, CONFIGS, ConfigToml>>, <<Root, APP, ConfigToml>>,
                <<CONFIGS, ConfigToml>>, <<ConfigToml>>}

WorkingDirs == {<<Root>>, <<Root, APP>>}

ConfiguredValues ==
    {NoPath, <<CustomUnderscore>>, <<CustomHyphen>>,
     <<CONFIGS, CustomUnderscore>>, <<CONFIGS, CustomHyphen>>,
     <<Root, APP, CustomUnderscore>>}

ChannelFiles ==
    {dir \o <<name>> :
        dir \in {<<Root, CONFIGS>>, <<Root, APP>>, <<Root, CONFIGS, CONFIGS>>,
                 <<Root, APP, CONFIGS>>},
        name \in {CustomUnderscore, CustomHyphen}}

ConfigIdle ==
    /\ cfPc = "idle"
    /\ cfPath = NoPath
    /\ cfCwd = <<Root>>
    /\ cfDisk = {}
    /\ cfValue = NoPath
    /\ cfFile = NoPath
    /\ cfErr = FALSE

\* Load is called: the file system holds up to MaxFiles channel files, the
\* config file or the environment holds a value for custom_channels_file.
ConfigInit ==
    /\ cfPc = "load"
    /\ cfPath \in ConfigPaths \cup {NoPath}
    /\ cfCwd \in WorkingDirs
    /\ cfDisk \in {d \in SUBSET ChannelFiles : Cardinality(d) <= MaxFiles}
    /\ cfValue \in ConfiguredValues
    /\ cfFile = NoPath
    /\ cfErr = FALSE

\* No config file is named and none is found: cleanenv.ReadEnv, then
\* applyDefaults.
Load_FromEnv ==
    /\ cfPc = "load"
    /\ cfPath = NoPath
    /\ \/ /\ cfErr' = TRUE
          /\ cfPc' = "failed"
          /\ UNCHANGED cfFile
       \/ /\ cfFile' = applyDefaults(cfValue)
          /\ cfPc' = "loaded"
          /\ UNCHANGED cfErr
    /\ UNCHANGED <<cfPath, cfCwd, cfDisk, cfValue>>
    /\ UNCHANGED notConfig

\* cleanenv.ReadConfig fails: return err.
Load_ReadConfigFails ==
    /\ cfPc = "load"
    /\ cfPath # NoPath
    /\ cfErr' = TRUE
    /\ cfPc' = "failed"
    /\ UNCHANGED <<cfPath, cfCwd, cfDisk, cfValue, cfFile>>
    /\ UNCHANGED notConfig

\* cleanenv.ReadConfig succeeds: c.normalizePaths(filename) and
\* c.applyDefaults(), return nil.
Load_FromFile ==
    /\ cfPc = "load"
    /\ cfPath # NoPath
    /\ cfFile' = applyDefaults(normalizePaths(cfValue, cfPath, cfDisk, cfCwd))
    /\ cfPc' = "loaded"
    /\ UNCHANGED <<cfPath, cfCwd, cfDisk, cfValue, cfErr>>
    /\ UNCHANGED notConfig

ConfigNext ==
    \/ Load_FromEnv
    \/ Load_ReadConfigFails
    \/ Load_FromFile

(***************************************************************************)
(* pkg/epg: the time Init arms the next generation for.  Times are in      *)
(* minutes; the local date on which Init runs starts at minute 0 of the    *)
(* local clock, which is tmZone minutes ahead of UTC.                      *)
(***************************************************************************)
MinutesPerDay == 24 * 60

\* defaultRandomHour, defaultRandomMinute
defaultRandomHour == 2

defaultRandomMinute == 30

\* rand.Int(rand.Reader, big.NewInt(3)) and big.NewInt(60): the values a
\* draw can return.
HourDraws == 0..2

MinuteDraws == 0..59

\* The zones the server runs in: New York, UTC, India.
Zones == {-300, 0, 330}

\* The times of day at which Init is taken to run.
TimesOfDay ==
    {i * (MinutesPerDay \div ClockTicks) : i \in 0..(ClockTicks - 1)}
        \cup {MinutesPerDay - 1}

\* time.Date(year, month, day+1, random_hour, random_min, 0, 0, time.UTC),
\* with year, month and day those of the local date: the minute of UTC it
\* denotes, counted from 00:00 UTC of the date with the same number.
schedule_time(random_hour, random_min) ==
    MinutesPerDay + 60 * random_hour + random_min

\* time.Now(), counted in the same way.
time_now(zone, clock) == clock - zone

\* time.Until(schedule_time)
Until(t, zone, clock) == t - time_now(zone, clock)

ArmIdle ==
    /\ tmPc = "idle"
    /\ tmZone = 0
    /\ tmClock = 0
    /\ tmHour = 0
    /\ tmMinute = 0
    /\ tmDelay = 0

\* Init has checked the file and run genepg where it had to.
ArmInit ==
    /\ tmPc = "hour"
    /\ tmZone \in Zones
    /\ tmClock \in TimesOfDay
    /\ tmHour = 0
    /\ tmMinute = 0
    /\ tmDelay = 0

\* random_hour_bigint: a draw, or defaultRandomHour when the source fails.
Init_DrawHour ==
    /\ tmPc = "hour"
    /\ \E h \in HourDraws \cup {defaultRandomHour} : tmHour' = h
    /\ tmPc' = "minute"
    /\ UNCHANGED <<tmZone, tmClock, tmMinute, tmDelay>>
    /\ UNCHANGED notArm

\* random_min_bigint: a draw, or defaultRandomMinute when the source fails.
Init_DrawMinute ==
    /\ tmPc = "minute"
    /\ \E m \in MinuteDraws \cup {defaultRandomMinute} : tmMinute' = m
    /\ tmPc' = "schedule"
    /\ UNCHANGED <<tmZone, tmClock, tmHour, tmDelay>>
    /\ UNCHANGED notArm

\* random_hour := -5 + draw; random_min := -30 + draw; schedule_time;
\* go scheduler.Add(EPG_TASK_ID, time.Until(schedule_time), genepg)
Init_Schedule ==
    /\ tmPc = "schedule"
    /\ tmDelay' = Until(schedule_time(-5 + tmHour, -30 + tmMinute), tmZone, tmClock)
    /\ tmPc' = "armed"
    /\ UNCHANGED <<tmZone, tmClock, tmHour, tmMinute>>
    /\ UNCHANGED notArm

ArmNext ==
    \/ Init_DrawHour
    \/ Init_DrawMinute
    \/ Init_Schedule

(***************************************************************************)
(* EPGHandler and the writers of the EPG artifact: the download at         *)
(* startup, the scheduled refresh, epg.Init with its scheduled task, and   *)
(* the requests for /epg.xml.gz.  The file and its .tmp sibling are        *)
(* absent, partial or complete.                                            *)
(***************************************************************************)
Requests == {"req" \o ToString(i) : i \in 1..MaxRequests}

\* JioTVServer's own download, the task "external-epg-refresh", and
\* epg.Init followed by the task it arms.
Startup == "startup"

Refresh == "external-epg-refresh"

EpgInit == "epg.Init"

Procs == {Startup, Refresh, EpgInit} \cup Requests

\* The positions inside DownloadExternalEPG and inside GenXMLGz.
DownloadPcs == {"dl_request", "dl_write", "dl_remove", "dl_rename"}

GeneratePcs == {"gen_xml", "gen_create", "gen_write"}

\* Where a caller goes on when DownloadExternalEPG or GenXMLGz returns.
AfterDownload(p) ==
    IF p = Startup THEN "done" ELSE IF p = Refresh THEN "idle" ELSE "ext_unlock"

AfterGenerate(p) == IF p = EpgInit THEN "idle" ELSE "loc_check"

\* (config.Cfg.EPG && config.Cfg.EPGURL == "") || utils.FileExists(epg.xml.gz)
InitStarted(cfg, artifact) == (cfg.epg /\ ~cfg.url) \/ artifact # "absent"

ServeIdle ==
    /\ hCfg = [url |-> FALSE, epg |-> FALSE, init |-> FALSE]
    /\ hFile = "absent"
    /\ hTmp = "absent"
    /\ hPc = <<>>
    /\ hErr = <<>>
    /\ hExtMu = "free"
    /\ hLocMu = "free"
    /\ hRuns = <<>>
    /\ hOut = <<>>

\* JioTVServer starts: the configuration, and the artifact left by an
\* earlier run of the server.
ServeInit ==
    /\ hFile \in {"absent", "complete"}
    /\ hTmp = "absent"
    /\ \E url, epg \in BOOLEAN :
         /\ hCfg = [url |-> url, epg |-> epg, init |-> InitStarted([url |-> url, epg |-> epg], hFile)]
         /\ hPc = [p \in Procs |->
                     IF p = Startup THEN (IF url THEN "dl_request" ELSE "done")
                     ELSE IF p \in Requests THEN "waiting" ELSE "idle"]
    /\ hErr = [p \in Procs |-> "none"]
    /\ hExtMu = "free"
    /\ hLocMu = "free"
    /\ hRuns = [p \in {Refresh, EpgInit} |-> 0]
    /\ hOut = [r \in Requests |-> "none"]

\* ---- DownloadExternalEPG, run by p ----

\* client.DoTimeout and the status: an error, or the body of a 200.
Download_Request(p) ==
    /\ hPc[p] = "dl_request"
    /\ \/ /\ hPc' = [hPc EXCEPT ![p] = AfterDownload(p)]
          /\ hErr' = [hErr EXCEPT ![p] = "error"]
       \/ /\ hPc' = [hPc EXCEPT ![p] = "dl_write"]
          /\ UNCHANGED hErr
    /\ UNCHANGED <<hCfg, hFile, hTmp, hExtMu, hLocMu, hRuns, hOut>>
    /\ UNCHANGED notServe

\* os.WriteFile(tmp, data, 0644)
Download_WriteTmp(p) ==
    /\ hPc[p] = "dl_write"
    /\ \/ /\ hPc' = [hPc EXCEPT ![p] = AfterDownload(p)]
          /\ hErr' = [hErr EXCEPT ![p] = "error"]
          /\ hTmp' \in {hTmp, "partial"}
       \/ /\ hPc' = [hPc EXCEPT ![p] = "dl_remove"]
          /\ hTmp' = "complete"
          /\ UNCHANGED hErr
    /\ UNCHANGED <<hCfg, hFile, hExtMu, hLocMu, hRuns, hOut>>
    /\ UNCHANGED notServe

\* _ = os.Remove(filename)
Download_Remove(p) ==
    /\ hPc[p] = "dl_remove"
    /\ hFile' = "absent"
    /\ hPc' = [hPc EXCEPT ![p] = "dl_rename"]
    /\ UNCHANGED <<hCfg, hTmp, hErr, hExtMu, hLocMu, hRuns, hOut>>
    /\ UNCHANGED notServe

\* return os.Rename(tmp, filename): it fails when tmp is gone, and may fail
\* otherwise.
Download_Rename(p) ==
    /\ hPc[p] = "dl_rename"
    /\ \/ /\ hTmp # "absent"
          /\ hFile' = hTmp
          /\ hTmp' = "absent"
          /\ hErr' = [hErr EXCEPT ![p] = "nil"]
       \/ /\ hErr' = [hErr EXCEPT ![p] = "error"]
          /\ UNCHANGED <<hFile, hTmp>>
    /\ hPc' = [hPc EXCEPT ![p] = AfterDownload(p)]
    /\ UNCHANGED <<hCfg, hExtMu, hLocMu, hRuns, hOut>>
    /\ UNCHANGED notServe

\* ---- GenXMLGz, run by p ----

\* genXML()
Generate_XML(p) ==
    /\ hPc[p] = "gen_xml"
    /\ \/ /\ hPc' = [hPc EXCEPT ![p] = AfterGenerate(p)]
          /\ hErr' = [hErr EXCEPT ![p] = "error"]
       \/ /\ hPc' = [hPc EXCEPT ![p] = "gen_create"]
          /\ UNCHANGED hErr
    /\ UNCHANGED <<hCfg, hFile, hTmp, hExtMu, hLocMu, hRuns, hOut>>
    /\ UNCHANGED notServe

\* os.Create(filename)
Generate_Create(p) ==
    /\ hPc[p] = "gen_create"
    /\ \/ /\ hPc' = [hPc EXCEPT ![p] = AfterGenerate(p)]
          /\ hErr' = [hErr EXCEPT ![p] = "error"]
          /\ UNCHANGED hFile
       \/ /\ hPc' = [hPc EXCEPT ![p] = "gen_write"]
          /\ hFile' = "partial"
          /\ UNCHANGED hErr
    /\ UNCHANGED <<hCfg, hTmp, hExtMu, hLocMu, hRuns, hOut>>
    /\ UNCHANGED notServe

\* gz.Write(xml), and the deferred gz.Close() and f.Close().
Generate_Write(p) ==
    /\ hPc[p] = "gen_write"
    /\ \/ /\ hErr' = [hErr EXCEPT ![p] = "error"]
          /\ UNCHANGED hFile
       \/ /\ hErr' = [hErr EXCEPT ![p] = "nil"]
          /\ hFile' = IF hFile = "absent" THEN "absent" ELSE "complete"
    /\ hPc' = [hPc EXCEPT ![p] = AfterGenerate(p)]
    /\ UNCHANGED <<hCfg, hTmp, hExtMu, hLocMu, hRuns, hOut>>
    /\ UNCHANGED notServe

\* ---- the scheduled writers ----

\* The task "external-epg-refresh" fires: it is armed once the download at
\* startup has returned.
Refresh_Fire ==
    /\ hCfg.url
    /\ hPc[Startup] = "done"
    /\ hPc[Refresh] = "idle"
    /\ hRuns[Refresh] < MaxWrites
    /\ hRuns' = [hRuns EXCEPT ![Refresh] = @ + 1]
    /\ hPc' = [hPc EXCEPT ![Refresh] = "dl_request"]
    /\ UNCHANGED <<hCfg, hFile, hTmp, hErr, hExtMu, hLocMu, hOut>>
    /\ UNCHANGED notServe

\* genepg is run by epg.Init, started with "go" before the download at
\* startup, or by the task epg.Init arms.
EpgInit_genepg ==
    /\ hCfg.init
    /\ hPc[EpgInit] = "idle"
    /\ hRuns[EpgInit] < MaxWrites
    /\ hRuns' = [hRuns EXCEPT ![EpgInit] = @ + 1]
    /\ hPc' = [hPc EXCEPT ![EpgInit] = "gen_xml"]
    /\ UNCHANGED <<hCfg, hFile, hTmp, hErr, hExtMu, hLocMu, hOut>>
    /\ UNCHANGED notServe

\* ---- EPGHandler, for request r ----

EPGHandler_Return(r, response) ==
    /\ hOut' = [hOut EXCEPT ![r] = response]
    /\ hPc' = [hPc EXCEPT ![r] = "done"]

\* The request arrives once the server listens; os.Stat(epgFilePath) and
\* the choice of the branch.
EPGHandler_Stat(r) ==
    /\ hPc[r] = "waiting"
    /\ hPc[Startup] = "done"
    /\ IF hFile # "absent" THEN EPGHandler_Return(r, "file")
       ELSE IF hCfg.url THEN /\ hPc' = [hPc EXCEPT ![r] = "ext_lock"]
                             /\ UNCHANGED hOut
       ELSE IF hCfg.epg THEN /\ hPc' = [hPc EXCEPT ![r] = "loc_lock"]
                             /\ UNCHANGED hOut
       ELSE EPGHandler_Return(r, "404")
    /\ UNCHANGED <<hCfg, hFile, hTmp, hErr, hExtMu, hLocMu, hRuns>>
    /\ UNCHANGED notServe

\* externalEPGMu.Lock(), then the call of epg.DownloadExternalEPG.
EPGHandler_ExtLock(r) ==
    /\ hPc[r] = "ext_lock"
    /\ hExtMu = "free"
    /\ hExtMu' = r
    /\ hPc' = [hPc EXCEPT ![r] = "dl_request"]
    /\ UNCHANGED <<hCfg, hFile, hTmp, hErr, hLocMu, hRuns, hOut>>
    /\ UNCHANGED notServe

\* externalEPGMu.Unlock()
EPGHandler_ExtUnlock(r) ==
    /\ hPc[r] = "ext_unlock"
    /\ hExtMu' = "free"
    /\ hPc' = [hPc EXCEPT ![r] = "ext_check"]
    /\ UNCHANGED <<hCfg, hFile, hTmp, hErr, hLocMu, hRuns, hOut>>
    /\ UNCHANGED notServe

\* if err == nil { if os.Stat succeeds { return c.SendFile } };
\* return InternalServerError(c, err.Error()): with err nil and the file
\* missing, err.Error() dereferences nil.
EPGHandler_ExtCheck(r) ==
    /\ hPc[r] = "ext_check"
    /\ IF hErr[r] = "nil"
       THEN IF hFile # "absent" THEN EPGHandler_Return(r, "file")
            ELSE EPGHandler_Return(r, "nil dereference")
       ELSE EPGHandler_Return(r, "500")
    /\ UNCHANGED <<hCfg, hFile, hTmp, hErr, hExtMu, hLocMu, hRuns>>
    /\ UNCHANGED notServe

\* localEPGMu.Lock(); defer localEPGMu.Unlock(); the second os.Stat.
EPGHandler_LocLock(r) ==
    /\ hPc[r] = "loc_lock"
    /\ hLocMu = "free"
    /\ IF hFile # "absent"
       THEN /\ EPGHandler_Return(r, "file")
            /\ UNCHANGED hLocMu
       ELSE /\ hLocMu' = r
            /\ hPc' = [hPc EXCEPT ![r] = "gen_xml"]
            /\ UNCHANGED hOut
    /\ UNCHANGED <<hCfg, hFile, hTmp, hErr, hExtMu, hRuns>>
    /\ UNCHANGED notServe

\* After epg.GenXMLGz: the error, or the last os.Stat; the deferred unlock.
EPGHandler_LocCheck(r) ==
    /\ hPc[r] = "loc_check"
    /\ IF hErr[r] = "error" THEN EPGHandler_Return(r, "500")
       ELSE IF hFile # "absent" THEN EPGHandler_Return(r, "file")
       ELSE EPGHandler_Return(r, "404")
    /\ hLocMu' = "free"
    /\ UNCHANGED <<hCfg, hFile, hTmp, hErr, hExtMu, hRuns>>
    /\ UNCHANGED notServe

ServeWriters ==
    \E p \in Procs :
        \/ Download_Request(p)
        \/ Download_WriteTmp(p)
        \/ Download_Remove(p)
        \/ Download_Rename(p)
        \/ Generate_XML(p)
        \/ Generate_Create(p)
        \/ Generate_Write(p)

ServeRequests ==
    \E r \in Requests :
        \/ EPGHandler_Stat(r)
        \/ EPGHandler_ExtLock(r)
        \/ EPGHandler_ExtUnlock(r)
        \/ EPGHandler_ExtCheck(r)
        \/ EPGHandler_LocLock(r)
        \/ EPGHandler_LocCheck(r)

ServeNext ==
    \/ Refresh_Fire
    \/ EpgInit_genepg
    \/ ServeWriters
    \/ ServeRequests

(***************************************************************************)
(* pkg/television: FilterChannels, the filter by one language and one      *)
(* category, 0 standing for "not set".                                     *)
(***************************************************************************)
Unset == "0"

\* The loop over channels with its four branches.
RECURSIVE FilterChannels_Loop(_, _, _, _, _)
FilterChannels_Loop(channels, language, category, i, filteredChannels) ==
    IF i > Len(channels) THEN filteredChannels
    ELSE LET channel == channels[i]
             keep == IF language # Unset /\ category # Unset
                     THEN channel.Language = language /\ channel.Category = category
                     ELSE IF language # Unset THEN channel.Language = language
                     ELSE IF category # Unset THEN channel.Category = category
                     ELSE TRUE
         IN FilterChannels_Loop(channels, language, category, i + 1,
                IF keep THEN Append(filteredChannels, channel)
                ELSE filteredChannels)

\* Variant that looks at the category only when no language is set.
FilterChannels_LanguageFirst(channels, language, category) ==
    FilterChannels_Loop(channels, language,
                        IF language # Unset THEN Unset ELSE category, 1, <<>>)

FilterChannels(channels, language, category) ==
    FilterChannels_Loop(channels, language, category, 1, <<>>)

\* The catalogs it is tried on: channels may carry the language or the
\* category 0.
SingleCatalogs ==
    {FiveChannels} \cup
    SeqsUpTo({FilterChannel("x", l, c) : l \in FilterLanguages \cup {Unset},
                                         c \in FilterCategories \cup {Unset}},
             MaxFilterChannels)

SingleIdle ==
    /\ sgPc = "idle"
    /\ sgChannels = <<>>
    /\ sgLanguage = Unset
    /\ sgCategory = Unset
    /\ sgOut = <<>>

\* A call FilterChannels(channels, language, category).
SingleInit ==
    /\ sgPc = "call"
    /\ sgChannels \in SingleCatalogs
    /\ sgLanguage \in FilterLanguages \cup {Unset}
    /\ sgCategory \in FilterCategories \cup {Unset}
    /\ sgOut = <<>>

FilterChannels_Call ==
    /\ sgPc = "call"
    /\ sgPc' = "done"
    /\ sgOut' = FilterChannels(sgChannels, sgLanguage, sgCategory)
    /\ UNCHANGED <<sgChannels, sgLanguage, sgCategory>>
    /\ UNCHANGED notSingle

SingleNext == FilterChannels_Call

(***************************************************************************)
(* Specifications                                                          *)
(***************************************************************************)
EPGIdle ==
    /\ file = Absent
    /\ tmp = Absent
    /\ runs = 0
    /\ genPc = "idle"
    /\ genErr = ""
    /\ genResult = "none"
    /\ genPre = Absent
    /\ dlPc = "idle"
    /\ dlHops = 0
    /\ dlResult = "none"
    /\ dlPre = Absent
    /\ seen = Absent

LaterIdle ==
    /\ VariantIdle /\ PlaylistIdle /\ ReplaceIdle /\ LoadIdle /\ FilterIdle
    /\ SchedulerIdle

LastIdle == PoolIdle /\ ConfigIdle /\ ArmIdle /\ ServeIdle /\ SingleIdle

EarlierIdle == EPGIdle /\ CacheIdle /\ LiveIdle /\ CatchupIdle /\ TokenIdle

InitEPG ==
    /\ EPGInit /\ CacheIdle /\ LiveIdle /\ CatchupIdle /\ TokenIdle /\ LaterIdle
    /\ LastIdle

SpecEPG == InitEPG /\ [][EPGNext]_vars

InitCache ==
    /\ CacheInit /\ EPGIdle /\ LiveIdle /\ CatchupIdle /\ TokenIdle /\ LaterIdle
    /\ LastIdle

SpecCache == InitCache /\ [][CacheNext]_vars

InitLive ==
    /\ LiveInit /\ EPGIdle /\ CacheIdle /\ CatchupIdle /\ TokenIdle /\ LaterIdle
    /\ LastIdle

SpecLive == InitLive /\ [][LiveNext]_vars

InitCatchup ==
    /\ CatchupInit /\ EPGIdle /\ CacheIdle /\ LiveIdle /\ TokenIdle /\ LaterIdle
    /\ LastIdle

SpecCatchup == InitCatchup /\ [][CatchupNext]_vars

InitToken ==
    /\ TokenInit /\ EPGIdle /\ CacheIdle /\ LiveIdle /\ CatchupIdle /\ LaterIdle
    /\ LastIdle

SpecToken == InitToken /\ [][TokenNext]_vars

InitVariant ==
    /\ VariantInit /\ EarlierIdle /\ PlaylistIdle /\ ReplaceIdle /\ LoadIdle /\ FilterIdle
    /\ SchedulerIdle
    /\ LastIdle

SpecVariant == InitVariant /\ [][VariantNext]_vars

InitPlaylist ==
    /\ PlaylistInit /\ EarlierIdle /\ VariantIdle /\ ReplaceIdle /\ LoadIdle /\ FilterIdle
    /\ SchedulerIdle
    /\ LastIdle

SpecPlaylist == InitPlaylist /\ [][PlaylistNext]_vars

InitReplace ==
    /\ ReplaceInit /\ EarlierIdle /\ VariantIdle /\ PlaylistIdle /\ LoadIdle /\ FilterIdle
    /\ SchedulerIdle
    /\ LastIdle

SpecReplace == InitReplace /\ [][ReplaceNext]_vars

InitLoad ==
    /\ LoadInit /\ EarlierIdle /\ VariantIdle /\ PlaylistIdle /\ ReplaceIdle /\ FilterIdle
    /\ SchedulerIdle
    /\ LastIdle

SpecLoad == InitLoad /\ [][LoadNext]_vars

InitFilter ==
    /\ FilterInit /\ EarlierIdle /\ VariantIdle /\ PlaylistIdle /\ ReplaceIdle /\ LoadIdle
    /\ SchedulerIdle
    /\ LastIdle

SpecFilter == InitFilter /\ [][FilterNext]_vars

InitScheduler ==
    /\ SchedulerInit /\ EarlierIdle /\ VariantIdle /\ PlaylistIdle /\ ReplaceIdle
    /\ LoadIdle /\ FilterIdle
    /\ LastIdle

SpecScheduler == InitScheduler /\ [][SchedulerNext]_vars

InitPool == PoolInit /\ EarlierIdle /\ LaterIdle /\ ConfigIdle /\ ArmIdle /\ ServeIdle /\ SingleIdle

SpecPool == InitPool /\ [][PoolNext]_vars

\* The runtime keeps scheduling goroutines that can take a step, and every
\* HTTP call returns.
FairSpecPool == SpecPool /\ WF_vars(PoolNext)

InitConfig == ConfigInit /\ EarlierIdle /\ LaterIdle /\ PoolIdle /\ ArmIdle /\ ServeIdle /\ SingleIdle

SpecConfig == InitConfig /\ [][ConfigNext]_vars

InitArm == ArmInit /\ EarlierIdle /\ LaterIdle /\ PoolIdle /\ ConfigIdle /\ ServeIdle /\ SingleIdle

SpecArm == InitArm /\ [][ArmNext]_vars

InitServe == ServeInit /\ EarlierIdle /\ LaterIdle /\ PoolIdle /\ ConfigIdle /\ ArmIdle /\ SingleIdle

SpecServe == InitServe /\ [][ServeNext]_vars

InitSingle == SingleInit /\ EarlierIdle /\ LaterIdle /\ PoolIdle /\ ConfigIdle /\ ArmIdle /\ ServeIdle

SpecSingle == InitSingle /\ [][SingleNext]_vars

(***************************************************************************)
(* Claims about pkg/epg                                                    *)
(***************************************************************************)
\* The positions of a GenXMLGz call that lie inside genXML.
AssemblyPcs == {"fetchChannels", "status", "body", "parse", "fetchEPG", "marshal"}

\* The errors genXML returns.
AssemblyErrors == {"fetch", "status", "body", "parse", "marshal"}

NewArtifact == [st |-> "complete", ver |-> runs]

\* C1: every step of a GenXMLGz run from its entry up to and including a
\* failing return of genXML (channel-list fetch error, non-200 status, body
\* decode or parse error, marshal error) leaves the final path exactly as it
\* was: the failed run neither deletes nor truncates the artifact.
C1_FailedAssemblyKeepsArtifact ==
    [][(genPc' # genPc /\ (genPc \in AssemblyPcs \/ genPc' = "fetchChannels"))
          => (file' = file /\ file' = genPre')]_vars

\* C1 witness: a run failed at xml.Marshal while a complete artifact of an
\* earlier run was on disk, and the artifact is still the same.
C1_Witness ==
    /\ genPc = "idle"
    /\ genResult = "marshal"
    /\ genPre.st = "complete"
    /\ file = genPre

\* C2: while GenXMLGz runs, the final path (and so whatever a concurrent
\* reader sees there) holds either the complete previous artifact or the
\* complete new one, never an empty or partially written file.
C2_StagedPromotion ==
    [][genPc # "idle"
          => /\ (file' = genPre \/ file' = NewArtifact)
             /\ (seen' # seen => (seen' = genPre \/ seen' = NewArtifact))]_vars

\* C3: while DownloadExternalEPG runs and when it returns, whatever the
\* outcome, the target path holds either the complete previous file or the
\* complete downloaded file: it is never missing after having existed and
\* never partial.
C3_AtomicReplace ==
    [][dlPc # "idle" => (file' = dlPre \/ file' = NewArtifact)]_vars

(***************************************************************************)
(* Claims about the custom-channel cache                                   *)
(***************************************************************************)
\* The map the cache variable denotes.
CacheMap == Deref(cacheRef)

\* The id-keyed map a complete pass over channels builds.
MapOfChannels(channels) ==
    [k \in {channels[i].ID : i \in 1..Len(channels)} |->
        channels[CHOOSE i \in 1..Len(channels) :
                    /\ channels[i].ID = k
                    /\ \A j \in 1..Len(channels) : channels[j].ID = k => j <= i]]

SeqRange(seq) == {seq[i] : i \in 1..Len(seq)}

\* C4: a reload either installs the map of the newly parsed set or, when
\* LoadCustomChannels returned an error, leaves the cached map as it was, so
\* that every id that resolved before the failed reload still resolves.
C4_FailedReloadKeepsCache ==
    [][(relPc = "swap" /\ relPc' = "unlock")
          => IF relErr
             THEN CacheMap' = CacheMap
             ELSE CacheMap' = MapOfChannels(relChannels)]_vars

\* The maps a complete load can produce: one per state of the file, and the
\* empty map.
CompleteMaps ==
    {EmptyMap} \cup
    {MapOfChannels(LoadCustomChannels(p, d).channels) : p \in PathKinds, d \in DiskStates}

\* C5: a reader that ranges over the cache collects entries of the map that
\* is installed while it holds the read lock, all of them by the time it
\* releases the lock, and what it returns is one complete load, never a
\* mixture of two; the writer holds the lock only while no reader does.
C5_ReadersSeeOneSnapshot ==
    /\ \A r \in Readers :
          rdOp[r].op = "all" =>
             /\ rdPc[r] \in {"iter", "unlock"} =>
                   /\ r \in rwReaders
                   /\ SeqRange(rdAcc[r]) \subseteq MapRange(CacheMap)
             /\ rdPc[r] = "unlock" => SeqRange(rdAcc[r]) = MapRange(CacheMap)
             /\ rdPc[r] = "returned" =>
                   /\ \E m \in CompleteMaps : SeqRange(rdAcc[r]) = MapRange(m)
                   /\ Len(rdAcc[r]) = Cardinality(SeqRange(rdAcc[r]))
    /\ rwWriter => rwReaders = {}
    /\ relPc \in {"swap", "unlock"} <=> rwWriter

\* C5 witness: a reader is half way through the installed map while a reload
\* that has built a different map waits for the write lock.
C5_Witness ==
    \E r \in Readers :
        /\ rdPc[r] = "iter"
        /\ Len(rdAcc[r]) = 1
        /\ Cardinality(DOMAIN CacheMap) = 2
        /\ relPc = "lockWait"
        /\ ~relErr
        /\ heap[relNext] # CacheMap
        /\ heap[relNext] # EmptyMap

(***************************************************************************)
(* Claims about the upstream resolution client                             *)
(***************************************************************************)
\* C6: Live retries once on the transient error: a call sends at most 2
\* requests to the backend, and after the transient error has hit the retry
\* too the call is over, it does not send another request.
C6_LiveRetriesOnce ==
    liveKind = "jio" =>
       /\ liveReqs <= 2
       /\ livePc = "request" => liveReqs <= 1

\* C7: GetCatchupURL makes at most 3 attempts; when all of them fail with
\* the transient error it returns a transient-network error, and it never
\* looks at the status or the body of a response it did not receive.
C7_CatchupSurfacesTransient ==
    /\ catAttempts <= maxRetries
    /\ catPc \in {"status", "decode"} => catGotResp
    /\ (catPc = "idle" /\ catAttempts = maxRetries /\ ~catGotResp
           /\ catEnd # "panic: transport")
          => catEnd = "error: transient"

\* The URL fields of a result the claims speak of.
URLFields == {"Auto", "High", "Medium", "Low", "Result", "MpdResult"}

\* The tokens embedded in the URL fields of a body.
Tokens(b) == {extractHdneaFromURL(b[f]) : f \in URLFields} \ {<<>>}

\* The number of places at which sub occurs in str.
StrCount(str, sub) ==
    Cardinality({i \in 1..(Len(str) - Len(sub) + 1) :
                    SubSeq(str, i, i + Len(sub) - 1) = sub})

\* C8: when any URL field of the decoded response embeds an hdnea token, the
\* result's Hdnea is that token, every non-empty URL field that lacked one
\* carries hdnea=<token> exactly once, and a field that had one is unchanged.
C8_LiveCompletesHdnea ==
    (liveEnd = "result" /\ liveKind = "jio" /\ Tokens(liveBody) # {}) =>
       /\ liveOut.Hdnea \in Tokens(liveBody)
       /\ \A f \in URLFields :
             liveBody[f] # <<>> =>
                IF StrContains(liveBody[f], HDNEA)
                THEN liveOut[f] = liveBody[f]
                ELSE /\ StrCount(liveOut[f], HDNEA) = 1
                     /\ extractHdneaFromURL(liveOut[f]) = liveOut.Hdnea

\* C9 as claimed: for the same decoded body GetCatchupURL returns the token
\* and the URL fields Live returns.
C9_CatchupMirrorsLive ==
    catEnd = "result" => catOut = Live_Hdnea(catBody)

\* C9 as amended: GetCatchupURL returns every URL field as decoded, without
\* completing it, and its token is the one Live returns whenever the auto URL
\* embeds a token and the result URL embeds none or the same one.
C9_CatchupHdnea ==
    catEnd = "result" =>
       /\ \A f \in URLFields \cup {"MpdKey"} : catOut[f] = catBody[f]
       /\ (/\ extractHdneaFromURL(catBody.Auto) # <<>>
           /\ extractHdneaFromURL(catBody.Result)
                 \in {<<>>, extractHdneaFromURL(catBody.Auto)})
             => catOut.Hdnea = Live_Hdnea(catBody).Hdnea

\* C9 witness: the auto URL carries token A, the result and high URLs carry
\* none; the call returned token A and left the high URL without it.
C9_Witness ==
    /\ catEnd = "result"
    /\ extractHdneaFromURL(catBody.Auto) = <<"A">>
    /\ catBody.Result = U
    /\ catBody.High = U
    /\ catOut.High = U
    /\ catOut.Hdnea = <<"A">>
    /\ Live_Hdnea(catBody).High # U

(***************************************************************************)
(* Claims about the token-guarded handlers                                 *)
(***************************************************************************)
\* The outputs of EncryptURL.
ValidTokens == {EncryptURL(u, n) : u \in URLs, n \in Nonces}

\* a differs from an output of EncryptURL in exactly one byte.
IsMutated(a) ==
    /\ Len(a) = 3
    /\ \E t \in ValidTokens : Cardinality({i \in 1..3 : a[i] # t[i]}) = 1

Mutated == {m \in [1..3 -> Bytes] : IsMutated(m)}

FirstVariant(variants, P(_)) ==
    CHOOSE i \in 1..Len(variants) :
        /\ P(variants[i].Bandwidth)
        /\ \A j \in 1..(i - 1) : ~P(variants[j].Bandwidth)

BandwidthsOf(variants) == {variants[i].Bandwidth : i \in 1..Len(variants)}

\* Twice the distance of a bandwidth from the midpoint (lo + hi) / 2.
MidDistance2(bw, lo, hi) == abs(2 * bw - (lo + hi))

\* C11: for a non-empty list of variants "high" returns the URL of the
\* maximum-bandwidth variant, "low" that of the minimum-bandwidth variant,
\* "medium" that of the variant closest to the midpoint (min + max) / 2, the
\* first in the playlist among equally close ones, and any other quality is
\* an unknown-quality error without a URL.
C11_VariantSelection ==
    (vrPc = "done" /\ vrVariants # <<>>) =>
        LET bws == BandwidthsOf(vrVariants)
            hi == CHOOSE b \in bws : \A c \in bws : c <= b
            lo == CHOOSE b \in bws : \A c \in bws : b <= c
            best == CHOOSE d \in {MidDistance2(b, lo, hi) : b \in bws} :
                        \A b \in bws : d <= MidDistance2(b, lo, hi)
            IsHi(b) == b = hi
            IsLo(b) == b = lo
            IsMid(b) == MidDistance2(b, lo, hi) = best
        IN CASE vrQuality = "high" ->
                  vrOut = [url |-> vrVariants[FirstVariant(vrVariants, IsHi)].URL, err |-> ""]
             [] vrQuality = "low" ->
                  vrOut = [url |-> vrVariants[FirstVariant(vrVariants, IsLo)].URL, err |-> ""]
             [] vrQuality = "medium" ->
                  vrOut = [url |-> vrVariants[FirstVariant(vrVariants, IsMid)].URL, err |-> ""]
             [] OTHER ->
                  vrOut = [url |-> NoURL, err |-> "unknown quality"]

\* The lines of a playlist that are neither empty nor comments.
IsURLLine(line) == line # <<>> /\ Head(line) \notin HashLexemes

IsStreamInf(line) == line # <<>> /\ Head(line) = INF

CarriesBandwidth(line) ==
    LET i == StrIndex(line, <<BANDWIDTH>>)
    IN i # 0 /\ i < Len(line) /\ IsNumber(line[i + 1])

BandwidthOf(line) == Atoi(line[StrIndex(line, <<BANDWIDTH>>) + 1])

\* The stream-info tag a URL line belongs to: the last one before it, unless
\* another URL line lies in between (0 = none).
TagOf(content, j) ==
    LET tags == {i \in 1..(j - 1) :
                    /\ IsStreamInf(content[i])
                    /\ \A k \in (i + 1)..(j - 1) :
                          ~IsURLLine(content[k]) /\ ~IsStreamInf(content[k])}
    IN IF tags = {} THEN 0 ELSE CHOOSE i \in tags : TRUE

\* The variants of a playlist, in order: one for every URL line whose tag
\* carries a BANDWIDTH attribute.
RECURSIVE PairedVariants(_, _)
PairedVariants(content, j) ==
    IF j > Len(content) THEN <<>>
    ELSE (IF /\ IsURLLine(content[j])
             /\ TagOf(content, j) # 0
             /\ CarriesBandwidth(content[TagOf(content, j)])
          THEN <<[Bandwidth |-> BandwidthOf(content[TagOf(content, j)]),
                  URL |-> ResolveReference(content[j])]>>
          ELSE <<>>) \o PairedVariants(content, j + 1)

\* C12: getVariantURL records exactly one variant for every stream-info tag
\* that carries a BANDWIDTH attribute, wherever it stands in the attribute
\* list, and is followed by a URL line; the variant pairs that tag's
\* bandwidth with that line, never the bandwidth of an earlier tag.
C12_VariantPairing ==
    vrPc = "done" => vrVariants = PairedVariants(vrContent, 1)

\* A playlist line that is a resource reference: neither empty nor a comment.
IsReference(line) == TrimSpace(line) # <<>> /\ Head(TrimSpace(line)) \notin HashLexemes

\* The path a reference is classified by.
RefPath(ref) == IF url_Path(ref) = <<>> THEN ref ELSE url_Path(ref)

NamesManifest(ref) == StrContains(RefPath(ref), <<".m3u8">>)

NamesSegment(ref) ==
    /\ ~NamesManifest(ref)
    /\ StrContains(RefPath(ref), <<".ts">>) \/ StrContains(RefPath(ref), <<".mp4">>)

\* out is a gateway path whose token decrypts to ref resolved against the
\* base URL.
SealedFor(out, ref) ==
    /\ out.kind = "gateway"
    /\ DecryptURLStr(out.auth).ok
    /\ DecryptURLStr(out.auth).url = ResolveAgainstBase(ref)

RewriteDone == plPc = "done" /\ plStatus = "200"

MediaRewriteOf(out, ref) ==
    IF url_Parse_Fails(ref) THEN out = PlainURL(ref)
    ELSE IF NamesManifest(ref) \/ NamesSegment(ref) THEN SealedFor(out, ref)
    ELSE out = PlainURL(ResolveAgainstBase(ref))

IsMediaTag(line) ==
    /\ TrimSpace(line) # <<>>
    /\ Head(TrimSpace(line)) \in {"#EXT-X-MAP", "#EXT-X-MEDIA"}
    /\ MediaURI(TrimSpace(line)) # <<>>

ClassifiedAs(out, ref, isMaster, passThrough) ==
    IF NamesManifest(ref)
    THEN out.kind = "gateway" /\ out.endpoint = PlaylistEndpoint
    ELSE IF NamesSegment(ref) /\ ~isMaster
    THEN /\ out.kind = "gateway"
         /\ out.endpoint = (IF StrContains(RefPath(ref), <<".mp4">>)
                            THEN "/zee5/render/segment.mp4"
                            ELSE "/zee5/render/segment.ts")
    ELSE IF NamesSegment(ref)
    THEN out = PlainURL(passThrough)
    ELSE out = PlainURL(ResolveAgainstBase(ref))

OriginalURL ==
    (IF rpFn = "ReplaceKey" THEN <<>> ELSE rpArgs.baseUrl)
        \o rpArgs.match \o <<"?">> \o rpArgs.params

IsGatewayReference(out) ==
    /\ out.kind = "gateway"
    /\ out.endpoint \in {"/render.ts", "/render.key"}
    /\ out.auth.sealed.Match = rpArgs.match
    /\ out.auth.sealed.Params = rpArgs.params

\* C15 as claimed: with the TS-handler switch set, ReplaceTS, ReplaceAAC and
\* ReplaceKey each return the original absolute URL, without token or
\* gateway path; with the switch not set each returns a gateway reference
\* carrying an encrypted token.
C15_SwitchDisablesAllRewrites ==
    rpPc = "done" =>
        IF rpDisable THEN rpOut = PlainURL(OriginalURL) ELSE IsGatewayReference(rpOut)

\* C15 amended: the switch governs ReplaceTS and ReplaceAAC only; ReplaceKey
\* returns a gateway reference whatever the switch says.
C15_SwitchDisablesSegmentRewrites ==
    rpPc = "done" =>
        IF rpDisable /\ rpFn # "ReplaceKey"
        THEN rpOut = PlainURL(OriginalURL)
        ELSE IsGatewayReference(rpOut)

\* ReplaceAAC has returned the direct URL under the switch.
C15_Witness ==
    /\ rpPc = "done"
    /\ rpFn = "ReplaceAAC"
    /\ rpDisable
    /\ rpArgs.params = HDNEA \o <<"A">>
    /\ rpOut.kind = "url"

(***************************************************************************)
(* Claims about the custom-channel catalog                                 *)
(***************************************************************************)
IDsOf(channels) == [i \in 1..Len(channels) |-> channels[i].ID]

\* A file was read, parsed and converted.
FileConverted == ldPc = "done" /\ ldPath # "empty" /\ ldDisk.kind = "config"

\* C16: every id convertCustomConfigToChannels produces starts with cc_, an
\* id that already starts with cc_ is left untouched, converting the
\* converted list again changes nothing, the entries keep their number and
\* order, and the ids "1", "cc_2" come out as "cc_1", "cc_2".
C16_NormalizationIdempotent ==
    FileConverted =>
        /\ Len(ldChannels) = Len(ldDisk.channels)
        /\ \A i \in 1..Len(ldChannels) :
             /\ StrHasPrefix(ldChannels[i].ID, <<"c", "c", "_">>)
             /\ StrHasPrefix(ldDisk.channels[i].ID, <<"c", "c", "_">>)
                    => ldChannels[i].ID = ldDisk.channels[i].ID
             /\ ldChannels[i].Name = ldDisk.channels[i].Name
        /\ convertCustomConfigToChannels(ldChannels) = ldChannels
        /\ IDsOf(ldDisk.channels) = <<<<"1">>, <<"c", "c", "_", "2">>>>
               => IDsOf(ldChannels) = <<<<"c", "c", "_", "1">>, <<"c", "c", "_", "2">>>>

\* The file with ids "1", "cc_2" has been converted.
C16_Witness ==
    /\ FileConverted
    /\ IDsOf(ldDisk.channels) = <<<<"1">>, <<"c", "c", "_", "2">>>>
    /\ IDsOf(ldChannels) = <<<<"c", "c", "_", "1">>, <<"c", "c", "_", "2">>>>

\* C17: in every merged catalog Channels() returns, the upstream list
\* followed by the cached custom channels, no two channels share an id,
\* whatever loads and reloads of the cache came before.
C17_MergedIdsUnique ==
    \A r \in Readers :
        rdOp[r].op = "channels" /\ rdPc[r] = "merged" =>
            \A i, j \in 1..Len(rdAcc[r]) : rdAcc[r][i].ID = rdAcc[r][j].ID => i = j

\* A merged catalog with upstream channel 1 and the one custom channel
\* cc_1 left of a file whose two entries got the same id, after a reload.
C17_Witness ==
    \E r \in Readers :
        /\ rdOp[r].op = "channels"
        /\ rdPc[r] = "merged"
        /\ reloads >= 2
        /\ Len(rdAcc[r]) = 3
        /\ IDsOf(rdAcc[r]) = <<<<"1">>, <<"2">>, <<"c", "c", "_", "1">>>>

\* C18: LoadCustomChannels does not fail for an absent file: for a default
\* filename that does not exist it returns the built-in catalog with its ids
\* normalized, for any other path that does not exist and for the empty
\* path it returns an empty catalog, each time with a nil error.
C18_AbsentFileNeverFails ==
    ldPc = "done" /\ (ldPath = "empty" \/ ldDisk.kind = "missing") =>
        /\ ~ldErr
        /\ IF ldPath = "default"
           THEN /\ Len(ldChannels) = 2
                /\ ldChannels[1].ID = <<"c", "c", "_", "c", "u", "s", "t", "o", "m", "_",
                                       "n", "e", "w", "s", "_", "1">>
                /\ ldChannels[1].Name = "Sample News Channel"
                /\ ldChannels[2].ID = <<"c", "c", "_", "c", "u", "s", "t", "o", "m", "_",
                                       "e", "n", "t", "e", "r", "t", "a", "i", "n", "m",
                                       "e", "n", "t", "_", "1">>
                /\ ldChannels[2].Name = "Sample Entertainment Channel"
           ELSE ldChannels = <<>>

\* The built-in catalog has been returned for an absent default file.
C18_Witness ==
    /\ ldPc = "done"
    /\ ldPath = "default"
    /\ ldDisk.kind = "missing"
    /\ ~ldErr
    /\ Len(ldChannels) = 2

\* Membership in a default list; an empty list matches everything.
MatchesDefaults(value, list) ==
    list = <<>> \/ \E i \in 1..Len(list) : list[i] = value

\* C19: FilterChannelsByDefaults returns, in input order, exactly the
\* channels whose category is in the category list when that list is not
\* empty and whose language is in the language list when that list is not
\* empty; with both lists empty it returns its input; of the five channels
\* with languages 1, 1, 6, 6, 9 and categories 5, 5, 5, 8, 8 the language
\* list [6] without categories keeps exactly the two channels of language 6.
C19_FilterByMembership ==
    flPc = "done" =>
        /\ flOut = SelectSeq(flChannels,
                       LAMBDA ch : /\ MatchesDefaults(ch.Category, flCategories)
                                   /\ MatchesDefaults(ch.Language, flLanguages))
        /\ flCategories = <<>> /\ flLanguages = <<>> => flOut = flChannels
        /\ flChannels = FiveChannels /\ flCategories = <<>> /\ flLanguages = <<"6">>
               => flOut = <<FilterChannel("c", "6", "5"), FilterChannel("d", "6", "8")>>

\* The five channels have been filtered by the language list [6].
C19_Witness ==
    /\ flPc = "done"
    /\ flChannels = FiveChannels
    /\ flCategories = <<>>
    /\ flLanguages = <<"6">>
    /\ Len(flOut) = 2

(***************************************************************************)
(* Claims about the scheduler                                              *)
(***************************************************************************)
PendingFor(id) == {t \in schTimers : t.id = id}

PendingWork(fn) == {t \in schTimers : t.fn = fn}

Fetching == {w \in BagToSet(pwWorkers) : w.pc \in {"request", "bar"}}

HoldersOf(ch) ==
    BagCardinality([w \in {x \in Fetching : x.ch = ch} |-> pwWorkers[w]])

\* The channels a worker has received and finished with.
CompletedChannels ==
    {ch \in 1..Len(pwChannels) : pwHanded[ch] >= 1 /\ HoldersOf(ch) = 0}

\* C21: the document is assembled only after every queued channel has been
\* processed: a channel is received by one worker and once, no more than
\* numWorkers workers are started, the progress counter counts the completed
\* channels, and when xml.Marshal is called the counter equals the number
\* of channels and every worker has left its loop.
C21_AssemblyAfterAllChannels ==
    /\ \A ch \in 1..Len(pwChannels) :
          /\ pwHanded[ch] <= 1
          /\ HoldersOf(ch) <= 1
    /\ pwSpawned <= numWorkers
    /\ pwBar = Cardinality(CompletedChannels)
    /\ pwPc \in {"marshal", "done"} =>
          /\ pwBar = Len(pwChannels)
          /\ \A ch \in 1..Len(pwChannels) : pwHanded[ch] = 1
          /\ \A w \in BagToSet(pwWorkers) : w.pc = "exited"

\* xml.Marshal is about to be called for a list longer than the pool, with
\* programmes collected.
C21_Witness ==
    /\ pwPc = "marshal"
    /\ Len(pwChannels) > numWorkers
    /\ pwBar = Len(pwChannels)
    /\ pwProgrammes # {}

\* The state of the worker that holds channel ch, when there is one.
HolderOf(ch) == CHOOSE w \in Fetching : w.ch = ch

\* C22: for each channel the offsets are requested in increasing order from
\* 0; a 404 ends the loop, with no further offset requested; after any
\* other failure the loop goes on to the next offset, so that it ends
\* on a 404 or after the last offset; and the programmes collected are
\* kept whatever the later responses are.
C22_OffsetsAndNotFound ==
    /\ [](\A w \in Fetching :
            /\ w.last = "notfound" => w.pc = "bar"
            /\ w.pc = "bar" => w.last = "notfound" \/ w.offset = OffsetLimit - 1
            /\ w.pc = "request" =>
                  \/ w.offset = 0 /\ w.last = "none"
                  \/ w.offset = 1 /\ w.last \in {"ok", "skipped"}
            /\ w.last = "ok" <=>
                  [ch |-> w.ch,
                   offset |-> IF w.pc = "bar" THEN w.offset ELSE w.offset - 1]
                      \in pwProgrammes)
    /\ [][/\ pwProgrammes \subseteq pwProgrammes'
          /\ \A ch \in 1..Len(pwChannels) :
                HoldersOf(ch) = 1 /\ HoldersOf(ch)' = 1 =>
                   /\ HolderOf(ch)'.offset >= HolderOf(ch).offset
                   /\ HolderOf(ch)'.offset <= HolderOf(ch).offset + 1]_vars

\* A worker was stopped by a 404 at offset 1 after the programmes of offset
\* 0 were collected, while the loop of another channel ended on a skipped
\* failure at offset 1.
C22_Witness ==
    \E w1, w2 \in Fetching :
        /\ w1.pc = "bar" /\ w2.pc = "bar"
        /\ w1.last = "notfound" /\ w1.offset = 1
        /\ [ch |-> w1.ch, offset |-> 0] \in pwProgrammes
        /\ w2.last = "skipped" /\ w2.offset = 1
        /\ [ch |-> w2.ch, offset |-> 0] \in pwProgrammes

\* C26: the fetch stage terminates: the producer is never blocked while it
\* queues channels, and genXML gets past wg.Wait(), which it does only
\* after every worker has left its loop.
C26_FetchStageTerminates ==
    /\ [](pwPc = "queue" => ENABLED genXML_QueueChannel)
    /\ <>(pwPc = "done" /\ \A w \in BagToSet(pwWorkers) : w.pc = "exited")

\* The fetch stage has ended for a list longer than the pool.
C26_Witness ==
    /\ pwPc = "done"
    /\ Len(pwChannels) > numWorkers
    /\ pwWg = 0

\* C23: a call of Live for a backend channel ends with a result or with an
\* error handed to the caller: a status other than 200, a transport error
\* other than the transient one and a body that does not decode each end
\* the call with a nil result and an error value.
C23_LiveReturnsErrors ==
    liveKind = "jio" /\ livePc = "idle" /\ liveEnd # "none" =>
        \/ liveEnd = "result"
        \/ liveEnd \in {"error: transport", "error: status", "error: decode"}
           /\ liveOut = NoBody

(***************************************************************************)
(* Claims about internal/config                                            *)
(***************************************************************************)
\* The directory of the config file Load was called with.
ConfigDir == Dir(cfPath)

\* The configured value with custom_channels respelled custom-channels in
\* its base name, and with a redundant leading configs/ dropped.
Respelled(raw) ==
    SubSeq(raw, 1, Len(raw) - 1) \o <<ReplaceAll(Base(raw), Underscored, Hyphened)>>

Stripped(raw) ==
    IF ConfigsPrefixRedundant(raw, ConfigDir) THEN Tail(raw) ELSE raw

\* The files under the directory of the config file that the configured
\* value names as it is or up to these two differences, and that exist.
ExistingUnderConfigDir(raw) ==
    {Join(ConfigDir, rel) :
        rel \in {r \in {raw, Respelled(raw), Stripped(raw), Stripped(Respelled(raw))} :
                    fileExists(cfDisk, cfCwd, Join(ConfigDir, r))}}

\* C24: after a successful Load from a config file, an absolute value is
\* unchanged; a relative value that does not exist under the working
\* directory has become the path of an existing file under the directory of
\* the config file when the value names one up to the spelling
\* custom_channels / custom-channels of its base name or up to a redundant
\* leading configs/, and is unchanged when it names none.
C24_ResolvedAgainstConfigDir ==
    cfPc = "loaded" /\ cfPath # NoPath /\ cfValue # NoPath =>
        /\ IsAbs(cfValue) => cfFile = cfValue
        /\ ~IsAbs(cfValue) /\ ~fileExists(cfDisk, cfCwd, cfValue) =>
              IF ExistingUnderConfigDir(cfValue) # {}
              THEN cfFile \in ExistingUnderConfigDir(cfValue)
              ELSE cfFile = cfValue

(***************************************************************************)
(* Claims about the time of the next generation                            *)
(***************************************************************************)
\* The minute of the local clock at which the armed task is due, counted
\* from the start of the local date on which Init ran.
DueLocal == tmClock + tmDelay

\* C25: the next generation is armed for the following calendar day, at a
\* time inside one fixed window of 3 hours, and the delay handed to the
\* scheduler is strictly positive whatever the current time and the draws.
C25_ArmedForNextDay ==
    tmPc = "armed" =>
        /\ tmDelay > 0
        /\ DueLocal >= MinutesPerDay
        /\ DueLocal < 2 * MinutesPerDay
        /\ tmDelay + time_now(tmZone, tmClock)
              \in (MinutesPerDay - 5 * 60 - 30)..(MinutesPerDay - 3 * 60 + 29)

(***************************************************************************)
(* Claims about EPGHandler and the writers of the artifact                 *)
(***************************************************************************)
\* C27: in the external branch of EPGHandler a request whose download
\* returned nil is answered with the file, and the response 500 is built
\* from an error that is not nil: err.Error() is never called on nil.
C27_DownloadedIsServed ==
    \A r \in Requests :
        hCfg.url /\ hPc[r] = "done" /\ hErr[r] # "none" =>
            /\ hOut[r] # "nil dereference"
            /\ hErr[r] = "nil" => hOut[r] = "file"
            /\ hOut[r] = "500" => hErr[r] = "error"

\* The executions of DownloadExternalEPG and of GenXMLGz under way.
Writing == {p \in Procs : hPc[p] \in DownloadPcs \cup GeneratePcs}

\* C28: at most one execution of GenXMLGz or DownloadExternalEPG is under
\* way at a time.
C28_OneWriterAtATime == Cardinality(Writing) <= 1

(***************************************************************************)
(* Claims about FilterChannels                                             *)
(***************************************************************************)
\* The list that stands for one value: empty for 0.
ListOf(value) == IF value # Unset THEN <<value>> ELSE <<>>

\* C29: FilterChannels(channels, l, c) returns the same channels in the
\* same order as FilterChannelsByDefaults(channels, categories, languages)
\* with categories = [c] if c is not 0, else [], and languages = [l] if l is
\* not 0, else [].
C29_SingleAgreesWithDefaults ==
    sgPc = "done" =>
        sgOut = FilterChannelsByDefaults(sgChannels, ListOf(sgCategory),
                                         ListOf(sgLanguage))

\* The five channels have been filtered by language 6 and category 8, which
\* one of them carries.
C29_Witness ==
    /\ sgPc = "done"
    /\ sgChannels = FiveChannels
    /\ sgLanguage = "6"
    /\ sgCategory = "8"
    /\ sgOut = <<FilterChannel("d", "6", "8")>>

(***************************************************************************)
(* Claims about what the cache keeps of a file                             *)
(***************************************************************************)
\* The entries of a file carry pairwise distinct ids.
DistinctIds(customConfig) ==
    \A i, j \in 1..Len(customConfig) :
        customConfig[i].ID = customConfig[j].ID => i = j

\* C30: when loadAndCacheCustomChannels has loaded a file whose entries
\* carry pairwise distinct ids, the cache it installs holds one channel for
\* each entry, and a lookup under the normalized id of an entry finds the
\* channel of that entry.
C30_OneChannelPerEntry ==
    relPc = "unlock" /\ ~relErr =>
        \A c \in Configs :
            DistinctIds(c) /\ relChannels = convertCustomConfigToChannels(c) =>
                /\ Cardinality(DOMAIN CacheMap) = Len(c)
                /\ \A i \in 1..Len(c) :
                      /\ relChannels[i].ID \in DOMAIN CacheMap
                      /\ CacheMap[relChannels[i].ID] = relChannels[i]

====
